---------------------------- MODULE Spec2Model ----------------------------
(***************************************************************************)
(* solid-ag-chat as a state machine: the normalized event store            *)
(* (createAgUiStore: the handlers it registers on the client's events, its *)
(* setActiveConversation and loadMessages), the upload hook                *)
(* (useFileUpload), whose events reach the store's handlers, and the       *)
(* localStorage persistence of the agent state.                            *)
(*                                                                         *)
(* A map of the store (messages, streaming, toolCallsInProgress) is a      *)
(* function whose DOMAIN is the set of keys the JavaScript object holds.   *)
(* A text is a sequence of characters, so that concatenation is \o and     *)
(* JavaScript's falsy '' is the empty sequence.                            *)
(***************************************************************************)
EXTENDS Integers, Sequences, FiniteSets, TLC

VARIABLES
    messages,                \* state.messages: id -> MessageDoc
    messagesByConversation,  \* state.messagesByConversation: conversation -> ids
    streaming,               \* state.streaming: id -> accumulated text
    toolCallsInProgress,     \* state.toolCallsInProgress: toolCallId -> entry
    activeConversationId,    \* state.activeConversationId
    loadedConversations,     \* closure Set of createAgUiStore
    loadingConversations,    \* closure Set of createAgUiStore
    fetching,                \* per conversation, the loadMessages calls awaiting
                             \* client.getMessages, each with its pre-fetch ids
    attachments,             \* state.attachments: id -> attachment object
    agentStateByConversation,\* state.agentStateByConversation: conversation -> state
    attachmentObjects,       \* the attachment objects the two maps refer to
    metadataObjects,         \* the metadata objects the attachment objects refer to
    uploads,                 \* useFileUpload: the uploads signal, tempId -> entry
    phase,                   \* useFileUpload: where each file's uploadFile stands
    emitted,                 \* history: the events useFileUpload emitted
    canceled,                \* history: tempIds cancelled during their transfer
    localStorage,            \* persistence: the item stored under STORAGE_KEY
    timeoutId,               \* persistence: debounce's pending timer, with the
                             \* arguments its callback holds
    calls,                   \* history: the arguments of the debounced calls
                             \* since the timer was last idle
    runs,                    \* history: the saves those calls have led to
    sent,                    \* history: deltas delivered since TEXT_MESSAGE_START
    tcSent,                  \* history: args delivered since TOOL_CALL_START
    reported,                \* what TOOL_CALL_END has written to console.error
    conversations,           \* state.conversations: id -> ConversationDoc
    last                     \* history: the handler that ran last

storeVars == <<messages, messagesByConversation, streaming,
               toolCallsInProgress, activeConversationId>>
loadVars == <<loadedConversations, loadingConversations, fetching>>
attachVars == <<attachments, agentStateByConversation, attachmentObjects,
                metadataObjects>>
\* what the message handlers and loadMessages never write
uploadVars == <<uploads, phase, emitted, canceled>>
persistVars == <<localStorage, timeoutId, calls, runs>>
nonMessageVars == <<attachVars, uploadVars, persistVars>>
vars == <<messages, messagesByConversation, streaming, toolCallsInProgress,
          activeConversationId, loadedConversations, loadingConversations,
          fetching, attachments, agentStateByConversation, attachmentObjects,
          metadataObjects, uploads, phase, emitted, canceled, localStorage,
          timeoutId, calls, runs, sent, tcSent, reported, conversations,
          last>>

----------------------------------------------------------------------------
(* Bounds of the model. *)

\* longest text a streaming buffer or an args string may reach
MaxText == 2
\* createdAt values are 1..MaxTime
MaxTime == 2
\* longest getMessages answer
MaxServer == 2
\* most loadMessages calls of one conversation awaiting getMessages at once
MaxInFlight == 2
\* most attachment objects the events bring in
MaxObjects == 3
\* attachment.progress percentages are 1..MaxProgress
MaxProgress == 1

----------------------------------------------------------------------------
(* Values. *)

\* the delta of a TEXT_MESSAGE_CONTENT / TOOL_CALL_ARGS payload; <<>> is ''
\* (or a missing delta: delta || '')
Deltas == {<<>>, <<"a">>, <<"b">>}

\* ids that m.id.startsWith('msg_') accepts
OptimisticIds == {"msg_1"}
MsgIds == {"m1", "msg_1"}
TcIds == {"t1", "t2"}
Convs == {"c1", "c2"}
\* an undefined conversationId / activeConversationId / toolCallId
NoConv == "undefined"
NoTc == "undefined"
\* a MessageDoc without createdAt
NoTime == -1
Times == 1 .. MaxTime
Terminal == {"completed", "errored", "canceled"}
\* the files handed to uploadFiles
Files == {"f1", "f2"}

\* obj[k] = v
Put(f, k, v) == [x \in (DOMAIN f) \cup {k} |-> IF x = k THEN v ELSE f[x]]
\* setState(..., k, undefined): setProperty deletes the key
Del(f, k) == [x \in (DOMAIN f) \ {k} |-> f[x]]
EmptyMap == [x \in {} |-> x]

\* arr.includes(x)
Includes(arr, x) == \E i \in 1 .. Len(arr) : arr[i] = x
\* a bug: the id is appended without the includes check
AppendAlways(arr, x) == Append(arr, x)

\* arr.includes(id) ? arr : [...arr, id]
AppendOnce(arr, x) == IF Includes(arr, x) THEN arr ELSE Append(arr, x)

\* the history record of the handler that ran last
Ran(op, id, exp) == [op |-> op, id |-> id, exp |-> exp]

----------------------------------------------------------------------------
(* setState('messages', id, doc): solid-js/store merges an object into the *)
(* object already stored (mergeStoreNode: every key of doc is set, a key   *)
(* whose value is undefined is deleted, the other keys stay), and stores   *)
(* doc itself under a new key.  A doc here always carries id, role,        *)
(* content, conversationId and status; createdAt = NoTime and              *)
(* toolCallId = NoTc stand for keys the doc does not have, and no doc that *)
(* reaches setState('messages', id, doc) carries toolCalls.                *)

MergeMessage(prev, doc) ==
    [id |-> doc.id,
     role |-> doc.role,
     content |-> doc.content,
     conversationId |-> doc.conversationId,
     status |-> doc.status,
     createdAt |-> IF doc.createdAt = NoTime THEN prev.createdAt ELSE doc.createdAt,
     toolCallId |-> IF doc.toolCallId = NoTc THEN prev.toolCallId ELSE doc.toolCallId,
     toolCalls |-> prev.toolCalls]

NewMessage(doc) ==
    [id |-> doc.id,
     role |-> doc.role,
     content |-> doc.content,
     conversationId |-> doc.conversationId,
     status |-> doc.status,
     createdAt |-> doc.createdAt,
     toolCallId |-> doc.toolCallId,
     toolCalls |-> <<>>]

SetMessage(msgs, doc) ==
    IF doc.id \in DOMAIN msgs
    THEN Put(msgs, doc.id, MergeMessage(msgs[doc.id], doc))
    ELSE Put(msgs, doc.id, NewMessage(doc))

Doc(id, role, content, conv, status, t, tc) ==
    [id |-> id, role |-> role, content |-> content, conversationId |-> conv,
     status |-> status, createdAt |-> t, toolCallId |-> tc]

\* state.messagesByConversation[c] || []
SeqOf(c) == messagesByConversation[c]

----------------------------------------------------------------------------
Init ==
    /\ messages = EmptyMap
    /\ messagesByConversation = [c \in Convs |-> <<>>]
    /\ streaming = EmptyMap
    /\ toolCallsInProgress = EmptyMap
    /\ activeConversationId = NoConv
    /\ loadedConversations = {}
    /\ loadingConversations = {}
    /\ fetching = [c \in Convs |-> <<>>]
    /\ attachments = EmptyMap
    /\ agentStateByConversation = EmptyMap
    /\ attachmentObjects = EmptyMap
    /\ metadataObjects = EmptyMap
    /\ uploads = EmptyMap
    /\ phase = [f \in Files |-> "idle"]
    /\ emitted = {}
    /\ canceled = {}
    /\ localStorage = <<>>
    /\ timeoutId = <<>>
    /\ calls = <<>>
    /\ runs = 0
    /\ sent = EmptyMap
    /\ tcSent = EmptyMap
    /\ reported = {}
    /\ conversations = EmptyMap
    /\ last = Ran("init", "undefined", <<>>)

----------------------------------------------------------------------------
(* Text streaming handlers. *)

\* the status TEXT_MESSAGE_START gives the message
StartStatus == "streaming"

\* client.on('TEXT_MESSAGE_START'): role is p.role || 'assistant', conv is
\* p.conversationId (NoConv when the payload has none), t is new Date()
TextMessageStart(id, role, conv, t) ==
    LET cid == IF conv # NoConv THEN conv ELSE activeConversationId
        msg == Doc(id, role, <<>>, cid, StartStatus, t, NoTc)
    IN  /\ messages' = SetMessage(messages, msg)
        /\ messagesByConversation' =
              IF cid # NoConv
              THEN [messagesByConversation EXCEPT ![cid] = AppendOnce(@, id)]
              ELSE messagesByConversation
        /\ streaming' = Put(streaming, id, <<>>)
        /\ sent' = Put(sent, id, <<>>)
        /\ last' = Ran("TEXT_MESSAGE_START", id, <<>>)
        /\ UNCHANGED <<toolCallsInProgress, activeConversationId, tcSent, reported, conversations>>
        /\ UNCHANGED loadVars
        /\ UNCHANGED nonMessageVars

\* a bug: the delta lands in front of the buffered text
AppendDeltaInFront(text, delta) == delta \o text

\* s.text + (delta || '')
AppendDelta(text, delta) == text \o delta

\* client.on('TEXT_MESSAGE_CONTENT'): the updater's default s = { text: '' }
\* opens a buffer when none is there
TextMessageContent(id, delta) ==
    LET text == IF id \in DOMAIN streaming THEN streaming[id] ELSE <<>>
    IN  /\ Len(text) + Len(delta) <= MaxText
        /\ streaming' = Put(streaming, id, AppendDelta(text, delta))
        /\ sent' = IF id \in DOMAIN sent
                   THEN Put(sent, id, sent[id] \o delta)
                   ELSE sent
        /\ last' = Ran("TEXT_MESSAGE_CONTENT", id, <<>>)
        /\ UNCHANGED <<messages, messagesByConversation, toolCallsInProgress,
                       activeConversationId, tcSent, reported, conversations>>
        /\ UNCHANGED loadVars
        /\ UNCHANGED nonMessageVars

\* a bug: the buffered text is dropped
FlushNothing(msg, id) == msg

\* the content TEXT_MESSAGE_END / message.canceled leave: the buffer's text
\* when it is truthy, else what the message held
Flush(msg, id) ==
    IF id \in DOMAIN streaming /\ streaming[id] # <<>>
    THEN [msg EXCEPT !.content = streaming[id]]
    ELSE msg

\* setState('messages', id, 'status', s) on a message that is there; on a
\* missing one updatePath reads a property of undefined and the handler throws
\* with the map as it was
SetStatus(msg, s) == [msg EXCEPT !.status = s]

\* client.on('TEXT_MESSAGE_END'): the content write comes first and throws on
\* a missing message when the buffer holds text, before the buffer is deleted
TextMessageEnd(id) ==
    /\ IF id \in DOMAIN messages
       THEN /\ messages' = Put(messages, id, SetStatus(Flush(messages[id], id), "completed"))
            /\ streaming' = Del(streaming, id)
       ELSE /\ messages' = messages
            /\ streaming' = IF id \in DOMAIN streaming /\ streaming[id] # <<>>
                            THEN streaming
                            ELSE Del(streaming, id)
    /\ sent' = Del(sent, id)
    /\ last' = Ran("TEXT_MESSAGE_END", id,
                   IF id \in DOMAIN sent THEN <<sent[id]>> ELSE <<>>)
    /\ UNCHANGED <<messagesByConversation, toolCallsInProgress,
                   activeConversationId, tcSent, reported, conversations>>
    /\ UNCHANGED loadVars
    /\ UNCHANGED nonMessageVars

\* client.on('message.errored')
MessageErrored(id) ==
    /\ messages' = IF id \in DOMAIN messages
                   THEN Put(messages, id, SetStatus(messages[id], "errored"))
                   ELSE messages
    /\ sent' = Del(sent, id)
    /\ last' = Ran("message.errored", id, <<>>)
    /\ UNCHANGED <<messagesByConversation, streaming, toolCallsInProgress,
                   activeConversationId, tcSent, reported, conversations>>
    /\ UNCHANGED loadVars
    /\ UNCHANGED nonMessageVars

\* client.on('message.canceled')
MessageCanceled(id) ==
    /\ messages' = IF id \in DOMAIN messages
                   THEN Put(messages, id, SetStatus(Flush(messages[id], id), "canceled"))
                   ELSE messages
    /\ sent' = Del(sent, id)
    /\ last' = Ran("message.canceled", id,
                   IF id \in DOMAIN sent THEN <<sent[id]>> ELSE <<>>)
    /\ UNCHANGED <<messagesByConversation, streaming, toolCallsInProgress,
                   activeConversationId, tcSent, reported, conversations>>
    /\ UNCHANGED loadVars
    /\ UNCHANGED nonMessageVars

\* setState(key, value) with an object for value on a key that holds an
\* object: solid-js/store's updatePath merges (mergeStoreNode sets every key
\* of value on the object already there and leaves its other keys)
MergeInto(prev, value) ==
    [x \in (DOMAIN prev) \cup (DOMAIN value) |->
        IF x \in DOMAIN value THEN value[x] ELSE prev[x]]

\* client.on('conversation.created'): c is the payload's conversation, a
\* document with its id; it becomes the active conversation, and
\* state.attachments is not written
ConversationCreated(c) ==
    /\ conversations' =
          IF c.id \in DOMAIN conversations
          THEN Put(conversations, c.id, MergeInto(conversations[c.id], c))
          ELSE Put(conversations, c.id, c)
    /\ activeConversationId' = c.id
    /\ last' = Ran("conversation.created", c.id, <<>>)
    /\ UNCHANGED <<messages, messagesByConversation, streaming,
                   toolCallsInProgress, sent, tcSent, reported>>
    /\ UNCHANGED loadVars
    /\ UNCHANGED nonMessageVars

\* setActiveConversation(id): setState('attachments', {}) merges the empty
\* object into the global map
SetActiveConversation(c) ==
    /\ activeConversationId' = c
    /\ attachments' = MergeInto(attachments, EmptyMap)
    /\ last' = Ran("setActiveConversation", c, <<>>)
    /\ UNCHANGED <<messages, messagesByConversation, streaming,
                   toolCallsInProgress, sent, tcSent, reported, conversations>>
    /\ UNCHANGED loadVars
    /\ UNCHANGED <<agentStateByConversation, attachmentObjects, metadataObjects>>
    /\ UNCHANGED <<uploadVars, persistVars>>

----------------------------------------------------------------------------
(* Tool call handlers. *)

\* the entry TOOL_CALL_END builds from the in-progress entry
ToolCall(tc) == [id |-> tc.id, name |-> tc.name, arguments |-> tc.args]

\* arr.some(existing => existing.id === id)
HasCall(arr, id) == \E i \in 1 .. Len(arr) : arr[i].id = id

\* a bug: the finished call is appended without the duplicate check
AddToolCallAlways(arr, call) == Append(arr, call)

\* exists ? arr : [...arr, toolCall]
AddToolCall(arr, call) == IF HasCall(arr, call.id) THEN arr ELSE Append(arr, call)

\* a bug: the parent message is written whether it is there or not
MissingAlways(msgs, id) == TRUE

\* a bug: a parent message that is not there is never created
MissingNever(msgs, id) == FALSE

\* !state.messages[parentMessageId]
Missing(msgs, id) == id \notin DOMAIN msgs

\* client.on('TOOL_CALL_START'): conv is the payload's conversationId (NoConv
\* when it has none), t is new Date()
ToolCallStart(parentMessageId, toolCallId, toolCallName, conv, t) ==
    LET cid == IF conv # NoConv THEN conv ELSE activeConversationId
        parentMessage == Doc(parentMessageId, "assistant", <<>>, cid, "completed", t, NoTc)
        missing == Missing(messages, parentMessageId)
    IN  /\ messages' = IF missing THEN SetMessage(messages, parentMessage) ELSE messages
        /\ messagesByConversation' =
              IF missing /\ cid # NoConv
              THEN [messagesByConversation EXCEPT ![cid] = AppendOnce(@, parentMessageId)]
              ELSE messagesByConversation
        /\ toolCallsInProgress' =
              Put(toolCallsInProgress, toolCallId,
                  [id |-> toolCallId, name |-> toolCallName, args |-> <<>>,
                   messageId |-> parentMessageId])
        /\ tcSent' = Put(tcSent, toolCallId, [parent |-> parentMessageId, args |-> <<>>])
        /\ last' = Ran("TOOL_CALL_START", toolCallId, <<>>)
        /\ UNCHANGED <<streaming, activeConversationId, sent, reported, conversations>>
        /\ UNCHANGED loadVars
        /\ UNCHANGED nonMessageVars

\* client.on('TOOL_CALL_ARGS'): args + (delta || ''); with no entry for the
\* id updatePath reads a property of undefined and the handler throws
ToolCallArgs(toolCallId, delta) ==
    /\ toolCallId \in DOMAIN toolCallsInProgress =>
           Len(toolCallsInProgress[toolCallId].args) + Len(delta) <= MaxText
    /\ toolCallsInProgress' =
          IF toolCallId \in DOMAIN toolCallsInProgress
          THEN [toolCallsInProgress EXCEPT ![toolCallId].args = @ \o delta]
          ELSE toolCallsInProgress
    /\ tcSent' = IF toolCallId \in DOMAIN tcSent
                 THEN [tcSent EXCEPT ![toolCallId].args = @ \o delta]
                 ELSE tcSent
    /\ last' = Ran("TOOL_CALL_ARGS", toolCallId, <<>>)
    /\ UNCHANGED <<messages, messagesByConversation, streaming,
                   activeConversationId, sent, reported, conversations>>
    /\ UNCHANGED loadVars
    /\ UNCHANGED nonMessageVars

\* a bug: nothing is written to the console
ReportNothing(log, what, id) == log

\* console.error('[TOOL_CALL_END] ...', id)
Report(log, what, id) == log \cup {[what |-> what, id |-> id]}

\* client.on('TOOL_CALL_END').  The history keeps what the parent's
\* toolCalls held for this id before the handler ran.  No statement of the
\* handler can throw: the message is written only when it is there.
ToolCallEnd(toolCallId) ==
    LET known == toolCallId \in DOMAIN toolCallsInProgress
        tc == toolCallsInProgress[toolCallId]
        found == known /\ tc.messageId \in DOMAIN messages
    IN  /\ messages' =
              IF found
              THEN [messages EXCEPT ![tc.messageId].toolCalls = AddToolCall(@, ToolCall(tc))]
              ELSE messages
        /\ toolCallsInProgress' = Del(toolCallsInProgress, toolCallId)
        /\ reported' =
              IF ~ known
              THEN Report(reported, "No tool call in progress for ID", toolCallId)
              ELSE IF ~ found
                   THEN Report(reported, "Message not found for ID", tc.messageId)
                   ELSE reported
        /\ tcSent' = Del(tcSent, toolCallId)
        /\ last' = Ran("TOOL_CALL_END", toolCallId,
                       IF toolCallId \in DOMAIN tcSent
                       THEN << [parent |-> tcSent[toolCallId].parent,
                                args |-> tcSent[toolCallId].args,
                                before |-> IF tcSent[toolCallId].parent \in DOMAIN messages
                                           THEN SelectSeq(messages[tcSent[toolCallId].parent].toolCalls,
                                                          LAMBDA x : x.id = toolCallId)
                                           ELSE <<>>] >>
                       ELSE <<>>)
        /\ UNCHANGED <<messagesByConversation, streaming, activeConversationId, sent,
                       conversations>>
        /\ UNCHANGED loadVars
        /\ UNCHANGED nonMessageVars

\* client.on('TOOL_CALL_RESULT'): role is the payload's role || 'tool',
\* content its content || '', t is new Date().  Object.values(...).find takes
\* the first message, in the map's key order, that holds the tool call; the
\* model keeps no key order and lets any such message be the one found.
ToolCallResult(messageId, toolCallId, content, role, t) ==
    \E parent \in {m \in DOMAIN messages : HasCall(messages[m].toolCalls, toolCallId)}
               \cup {"undefined"} :
        /\ parent = "undefined" =>
               ~ \E m \in DOMAIN messages : HasCall(messages[m].toolCalls, toolCallId)
        /\ LET pconv == IF parent = "undefined" THEN NoConv
                        ELSE messages[parent].conversationId
               cid == IF pconv # NoConv THEN pconv ELSE activeConversationId
               toolMessage == Doc(messageId, role, content, cid, "completed", t, toolCallId)
           IN  /\ messages' = SetMessage(messages, toolMessage)
               /\ messagesByConversation' =
                     IF cid # NoConv
                     THEN [messagesByConversation EXCEPT ![cid] = AppendOnce(@, messageId)]
                     ELSE messagesByConversation
        /\ sent' = Del(sent, messageId)
        /\ last' = Ran("TOOL_CALL_RESULT", messageId, <<>>)
        /\ UNCHANGED <<streaming, toolCallsInProgress, activeConversationId, tcSent, reported, conversations>>
        /\ UNCHANGED loadVars
        /\ UNCHANGED nonMessageVars

----------------------------------------------------------------------------
(* Attachment and agent state handlers.                                    *)
(*                                                                         *)
(* The store keeps the objects it is given: setProperty assigns the        *)
(* reference, and a nested setState or a merge writes into the object      *)
(* already stored.  The payload object of attachment.uploading /           *)
(* attachment.available therefore ends up both in state.attachments and in *)
(* the active conversation's agent state, so attachmentObjects and         *)
(* metadataObjects are the heap: the maps hold references into it, and a   *)
(* write through one map shows through the other.                          *)

AttIds == {"a1", "a2"}
\* a metadata object without the progress key
NoProgress == -1
\* the percentage of an attachment.progress payload
Progresses == 1 .. MaxProgress
AgentKeys == {"attachments", "suggestedQuestions"}

\* the error attachment.failed stores: the payload's error (what the upload
\* hook sends is { code, message, details } with details an Error instance),
\* or the string 'Upload failed' when the payload has none
UploadFailedString == [kind |-> "string", message |-> "Upload failed", details |-> "none"]
HookError(msg) == [kind |-> "object", message |-> msg, details |-> "Error"]
ErrorOr(error) == IF error = <<>> THEN UploadFailedString ELSE error[1]

\* the next free reference: every payload object is a new object
NewRef == Cardinality(DOMAIN attachmentObjects) + 1

\* { id, ..., state, metadata: {} } as the payload carries it
PayloadObject(a, r) == [id |-> a.id, state |-> a.state, metadata |-> r]
EmptyMetadata == [progress |-> NoProgress, error |-> <<>>]

\* the agent state of a conversation that has none: prevState = {}
EmptyAgentState ==
    [keys |-> {}, attachments |-> EmptyMap, suggestedQuestions |-> <<>>]
AgentStateOf(ags, c) == IF c \in DOMAIN ags THEN ags[c] ELSE EmptyAgentState

\* a bug: the conversation's state is rebuilt around the one attachment
WithAttachmentOnly(prev, id, r) ==
    [keys |-> {"attachments"}, attachments |-> Put(EmptyMap, id, r),
     suggestedQuestions |-> <<>>]

\* ({ ...prevState, attachments: { ...(prevState.attachments || {}),
\*    [attachment.id]: attachment } })
WithAttachment(prev, id, r) ==
    [prev EXCEPT !.keys = @ \cup {"attachments"},
                 !.attachments = Put(@, id, r)]

\* the body of client.on('attachment.uploading') and of
\* client.on('attachment.available'), which are the same.
\* setState('attachments', id, attachment) merges the payload into the object
\* the global map already holds for the id (state and metadata are
\* overwritten in place) and stores the payload object itself under a new id;
\* the active conversation's agent state always gets the payload object.
StoreAttachment(a) ==
    LET r == NewRef
        known == a.id \in DOMAIN attachments
        g == attachments[a.id]
    IN  /\ attachmentObjects' =
              IF known
              THEN Put(Put(attachmentObjects, r, PayloadObject(a, r)), g, PayloadObject(a, r))
              ELSE Put(attachmentObjects, r, PayloadObject(a, r))
        /\ metadataObjects' = Put(metadataObjects, r, EmptyMetadata)
        /\ attachments' = IF known THEN attachments ELSE Put(attachments, a.id, r)
        /\ agentStateByConversation' =
              IF activeConversationId # NoConv
              THEN Put(agentStateByConversation, activeConversationId,
                       WithAttachment(AgentStateOf(agentStateByConversation,
                                                   activeConversationId), a.id, r))
              ELSE agentStateByConversation

\* the event delivered by the client, with a new payload object
AttachmentUploading(a) ==
    /\ NewRef <= MaxObjects
    /\ StoreAttachment(a)
    /\ last' = Ran("attachment.uploading", a.id, <<>>)
    /\ UNCHANGED <<storeVars, loadVars, uploadVars, persistVars, sent, tcSent, reported, conversations>>

AttachmentAvailable(a) ==
    /\ NewRef <= MaxObjects
    /\ StoreAttachment(a)
    /\ last' = Ran("attachment.available", a.id, <<>>)
    /\ UNCHANGED <<storeVars, loadVars, uploadVars, persistVars, sent, tcSent, reported, conversations>>

\* the body of client.on('attachment.progress'): the updater's result is
\* merged into the metadata object of the global entry
StoreProgress(fileId, progress) ==
    /\ metadataObjects' =
          IF fileId \in DOMAIN attachments
          THEN [metadataObjects EXCEPT
                   ![attachmentObjects[attachments[fileId]].metadata].progress = progress]
          ELSE metadataObjects
    /\ UNCHANGED <<attachments, agentStateByConversation, attachmentObjects>>

AttachmentProgress(fileId, progress) ==
    /\ StoreProgress(fileId, progress)
    /\ last' = Ran("attachment.progress", fileId, <<>>)
    /\ UNCHANGED <<storeVars, loadVars, uploadVars, persistVars, sent, tcSent, reported, conversations>>

\* setState(..., 'state', 'failed') and the merge of { ...meta, error } on
\* the attachment object r
MarkFailed(objs, r) == [objs EXCEPT ![r].state = "failed"]
MarkError(metas, m, err) == [metas EXCEPT ![m].error = <<err>>]

\* conversationId && state.agentStateByConversation[conversationId]
\*    ?.attachments?.[fileId]
HasEntry(c, fileId) ==
    /\ c # NoConv
    /\ c \in DOMAIN agentStateByConversation
    /\ fileId \in DOMAIN agentStateByConversation[c].attachments

\* the body of client.on('attachment.failed'): error is the payload's error,
\* <<>> when it has none
StoreFailure(fileId, error) ==
    LET err == ErrorOr(error)
        inGlobal == fileId \in DOMAIN attachments
        g == attachments[fileId]
        objs1 == IF inGlobal THEN MarkFailed(attachmentObjects, g) ELSE attachmentObjects
        metas1 == IF inGlobal
                  THEN MarkError(metadataObjects, objs1[g].metadata, err)
                  ELSE metadataObjects
        c == activeConversationId
    IN  /\ IF HasEntry(c, fileId)
           THEN LET o == agentStateByConversation[c].attachments[fileId]
                IN  /\ attachmentObjects' = MarkFailed(objs1, o)
                    /\ metadataObjects' = MarkError(metas1, objs1[o].metadata, err)
           ELSE /\ attachmentObjects' = objs1
                /\ metadataObjects' = metas1
        /\ UNCHANGED <<attachments, agentStateByConversation>>

AttachmentFailed(fileId, error) ==
    /\ StoreFailure(fileId, error)
    /\ last' = Ran("attachment.failed", fileId, <<ErrorOr(error)>>)
    /\ UNCHANGED <<storeVars, loadVars, uploadVars, persistVars, sent, tcSent, reported, conversations>>

\* a bug: the snapshot replaces the conversation's state wholesale
ReplaceBySnapshot(prev, s, atts) ==
    [keys |-> s.keys,
     attachments |-> IF "attachments" \in s.keys THEN atts ELSE EmptyMap,
     suggestedQuestions |-> IF "suggestedQuestions" \in s.keys
                            THEN s.suggestedQuestions
                            ELSE <<>>]

\* { ...prevState, ...p.snapshot }, merged into the conversation's state: the
\* snapshot's top-level keys are set, the others stay.  atts is the
\* snapshot's attachments map, its objects in the heap.
MergeSnapshot(prev, s, atts) ==
    [keys |-> prev.keys \cup s.keys,
     attachments |-> IF "attachments" \in s.keys THEN atts ELSE prev.attachments,
     suggestedQuestions |-> IF "suggestedQuestions" \in s.keys
                            THEN s.suggestedQuestions
                            ELSE prev.suggestedQuestions]

\* client.on('STATE_SNAPSHOT'): conv is the payload's conversationId (NoConv
\* when it has none), snap its snapshot (<<>> when it has none).  A snapshot's
\* attachments map holds at most one attachment here, a new object.
StateSnapshot(conv, snap) ==
    LET cid == IF conv # NoConv THEN conv ELSE activeConversationId
        r == NewRef
    IN  /\ IF cid # NoConv /\ snap # <<>>
           THEN LET s == snap[1]
                    brings == "attachments" \in s.keys /\ s.attachments # <<>>
                    atts == IF brings THEN Put(EmptyMap, s.attachments[1].id, r)
                            ELSE EmptyMap
                IN  /\ brings => r <= MaxObjects
                    /\ attachmentObjects' =
                          IF brings
                          THEN Put(attachmentObjects, r, PayloadObject(s.attachments[1], r))
                          ELSE attachmentObjects
                    /\ metadataObjects' =
                          IF brings THEN Put(metadataObjects, r, EmptyMetadata)
                          ELSE metadataObjects
                    /\ agentStateByConversation' =
                          Put(agentStateByConversation, cid,
                              MergeSnapshot(AgentStateOf(agentStateByConversation, cid),
                                            s, atts))
           ELSE UNCHANGED <<agentStateByConversation, attachmentObjects, metadataObjects>>
        /\ last' = Ran("STATE_SNAPSHOT", cid, snap)
        /\ UNCHANGED <<attachments, storeVars, loadVars, uploadVars, persistVars, sent, tcSent, reported, conversations>>

----------------------------------------------------------------------------
(* message.created and loadMessages. *)

\* client.on('message.created'): m is the payload's message
MessageCreated(m) ==
    /\ messages' = SetMessage(messages, m)
    /\ messagesByConversation' =
          [messagesByConversation EXCEPT ![m.conversationId] = AppendOnce(@, m.id)]
    /\ sent' = Del(sent, m.id)
    /\ last' = Ran("message.created", m.id, <<>>)
    /\ UNCHANGED <<streaming, toolCallsInProgress, activeConversationId, tcSent, reported, conversations>>
    /\ UNCHANGED loadVars
    /\ UNCHANGED nonMessageVars

\* new Date(m.createdAt || 0).getTime()
SortKey(m) == IF m.createdAt = NoTime THEN 0 ELSE m.createdAt

\* Array.prototype.sort with the createdAt comparator: stable, ascending
RECURSIVE InsertSorted(_, _)
InsertSorted(sorted, m) ==
    IF sorted = <<>> THEN <<m>>
    ELSE IF SortKey(sorted[Len(sorted)]) <= SortKey(m)
         THEN Append(sorted, m)
         ELSE Append(InsertSorted(SubSeq(sorted, 1, Len(sorted) - 1), m),
                     sorted[Len(sorted)])

RECURSIVE SortByCreatedAt(_)
SortByCreatedAt(ms) ==
    IF ms = <<>> THEN <<>>
    ELSE InsertSorted(SortByCreatedAt(SubSeq(ms, 1, Len(ms) - 1)), ms[Len(ms)])

\* ids.map(id => msgs[id]).filter(Boolean), as the ids that are kept
Existing(ids, msgs) == SelectSeq(ids, LAMBDA id : id \in DOMAIN msgs)

\* a bug: only streaming messages are preserved
IsLocalStreamingOnly(m) == m.status = "streaming"

\* m.status === 'streaming' || m.id.startsWith('msg_')
IsLocal(m) == m.status = "streaming" \/ m.id \in OptimisticIds

IdsOf(ms) == [i \in 1 .. Len(ms) |-> ms[i].id]
IdSet(ms) == {ms[i].id : i \in 1 .. Len(ms)}

\* what the sort sees of a message
Entry(m) == [id |-> m.id, createdAt |-> m.createdAt]

\* a bug: every current message the answer does not hold is kept
FinalMessagesKeepAll(c, server) ==
    LET current == Existing(SeqOf(c), messages)
        kept == SelectSeq(current, LAMBDA id : id \notin IdSet(server))
    IN  SortByCreatedAt([i \in 1 .. Len(kept) |-> Entry(messages[kept[i]])]
                        \o [i \in 1 .. Len(server) |-> Entry(server[i])])

\* finalMessages: the preserved local messages the answer does not hold,
\* then the answer, sorted by createdAt
FinalMessages(c, server) ==
    LET current == Existing(SeqOf(c), messages)
        preserve == SelectSeq(current, LAMBDA id : IsLocal(messages[id]))
        kept == SelectSeq(preserve, LAMBDA id : id \notin IdSet(server))
    IN  SortByCreatedAt([i \in 1 .. Len(kept) |-> Entry(messages[kept[i]])]
                        \o [i \in 1 .. Len(server) |-> Entry(server[i])])

\* a bug: the answer's documents are not written into the messages map
StoreAllNothing(msgs, server) == msgs

\* finalMessages.forEach(m => setState('messages', m.id, m)): a preserved
\* message is merged with itself, which changes nothing; the answer's
\* documents (distinct ids) are merged in
RECURSIVE StoreAll(_, _)
StoreAll(msgs, server) ==
    IF server = <<>> THEN msgs
    ELSE StoreAll(SetMessage(msgs, Head(server)), Tail(server))

\* a bug: a call is let through while another is in flight
InFlightNever(c) == FALSE

\* loadingConversations.has(conversationId)
InFlight(c) == c \in loadingConversations

\* a bug: a loaded conversation is fetched again without force
AlreadyLoadedNever(c, force) == FALSE

\* !force && loadedConversations.has(conversationId)
AlreadyLoaded(c, force) == ~force /\ c \in loadedConversations

\* loadMessages(conversationId, force) up to its await: the two guards, then
\* the pre-fetch snapshot and the call of client.getMessages
LoadMessages(c, force) ==
    /\ Len(fetching[c]) < MaxInFlight
    /\ IF InFlight(c) \/ AlreadyLoaded(c, force)
       THEN /\ UNCHANGED loadVars
            /\ last' = Ran("loadMessages", c, <<"skipped", force>>)
       ELSE /\ loadingConversations' = loadingConversations \cup {c}
            /\ fetching' = [fetching EXCEPT ![c] = Append(@, Existing(SeqOf(c), messages))]
            /\ loadedConversations' = loadedConversations
            /\ last' = Ran("loadMessages", c, <<"fetching", force>>)
    /\ UNCHANGED <<messages, messagesByConversation, streaming,
                   toolCallsInProgress, activeConversationId, sent, tcSent, reported, conversations>>
    /\ UNCHANGED nonMessageVars

\* a bug: the conversation stays in the in-flight set
FinallyKeeps(c) == loadingConversations

\* finally { loadingConversations.delete(conversationId) }
Finally(c) == loadingConversations \ {c}

\* the k-th awaiting call of fetching[c] is answered
Answered(c, k) == [fetching EXCEPT ![c] = SubSeq(@, 1, k - 1) \o SubSeq(@, k + 1, Len(@))]

\* a bug: every id of the sequence that the answer lacks is carried over
CarryOverEverything(prev, msgs, incoming) ==
    SelectSeq(Existing(prev, msgs), LAMBDA id : id \notin incoming)

\* carryOverIds: the ids of prev whose message, as the map holds it by then,
\* is local and is not among the ids just collected
CarryOverIds(prev, msgs, incoming) ==
    SelectSeq(Existing(prev, msgs),
              LAMBDA id : IsLocal(msgs[id]) /\ id \notin incoming)

\* loadMessages after client.getMessages resolved with `server`: no await is
\* left, so the rest of the body and the finally run as one step
LoadResolved(c, k, server) ==
    /\ k \in 1 .. Len(fetching[c])
    /\ LET final == FinalMessages(c, server)
           messageIds == IdsOf(final)
           stored == StoreAll(messages, server)
           carryOverIds == CarryOverIds(SeqOf(c), stored, IdSet(final))
       IN  /\ messages' = stored
           /\ messagesByConversation' =
                 [messagesByConversation EXCEPT ![c] = messageIds \o carryOverIds]
           /\ sent' = [id \in (DOMAIN sent) \ IdSet(server) |-> sent[id]]
    /\ loadedConversations' = loadedConversations \cup {c}
    /\ loadingConversations' = Finally(c)
    /\ fetching' = Answered(c, k)
    /\ last' = Ran("loadMessages.resolved", c, <<fetching[c][k], server>>)
    /\ UNCHANGED <<streaming, toolCallsInProgress, activeConversationId, tcSent, reported, conversations>>
    /\ UNCHANGED nonMessageVars

\* client.getMessages rejected: there is no catch, so only the finally runs
\* and the promise loadMessages returned rejects
LoadRejected(c, k) ==
    /\ k \in 1 .. Len(fetching[c])
    /\ loadingConversations' = Finally(c)
    /\ fetching' = Answered(c, k)
    /\ last' = Ran("loadMessages.rejected", c, <<>>)
    /\ UNCHANGED <<messages, messagesByConversation, streaming, toolCallsInProgress,
                   activeConversationId, loadedConversations, sent, tcSent, reported, conversations>>
    /\ UNCHANGED nonMessageVars

\* the documents getMessages(c) may answer with: completed assistant messages
\* of c with content "s", with or without createdAt, no id twice
ServerDoc(c, id, t) == Doc(id, "assistant", <<"s">>, c, "completed", t, NoTc)
ServerDocs(c) == {ServerDoc(c, id, t) : id \in MsgIds, t \in Times \cup {NoTime}}
Answers(c) ==
    {ms \in UNION {[1 .. n -> ServerDocs(c)] : n \in 0 .. MaxServer} :
        \A i, j \in 1 .. Len(ms) : i # j => ms[i].id # ms[j].id}

----------------------------------------------------------------------------
(* The text streaming events alone.  The second message streams only the   *)
(* delta "a", which keeps the product of the two messages' states small.   *)

StreamConvs == {"c1"}
StreamDeltas(id) == IF id \in OptimisticIds THEN {<<"a">>} ELSE Deltas

NextStream ==
    \/ \E id \in MsgIds, c \in StreamConvs : TextMessageStart(id, "assistant", c, 1)
    \/ \E id \in MsgIds : \E d \in StreamDeltas(id) : TextMessageContent(id, d)
    \/ \E id \in MsgIds : TextMessageEnd(id)
    \/ \E id \in MsgIds : MessageErrored(id)
    \/ \E id \in MsgIds : MessageCanceled(id)

SpecStream == Init /\ [][NextStream]_vars

----------------------------------------------------------------------------
(* Claims about text streaming. *)

\* C1: after TEXT_MESSAGE_START(m), N >= 0 TEXT_MESSAGE_CONTENT(m, d_i) and
\* TEXT_MESSAGE_END(m), with no other event for m in between, the message's
\* content is the concatenation of the d_i in order, its status is completed
\* and the streaming map has no entry for m.
C1_StreamRoundTrip ==
    (last.op = "TEXT_MESSAGE_END" /\ last.exp # <<>>) =>
        /\ last.id \in DOMAIN messages
        /\ messages[last.id].content = last.exp[1]
        /\ messages[last.id].status = "completed"
        /\ last.id \notin DOMAIN streaming

C1_Witness ==
    /\ last = Ran("TEXT_MESSAGE_END", "m1", << <<"a", "b">> >>)
    /\ messages["m1"].content = <<"a", "b">>

\* C2: message.canceled for a message that streamed partial text (START, then
\* CONTENT deltas, no END) leaves status canceled and content equal to the
\* concatenation of the deltas received before the cancel.
C2_CancelKeepsPartial ==
    (last.op = "message.canceled" /\ last.exp # <<>>) =>
        /\ last.id \in DOMAIN messages
        /\ messages[last.id].status = "canceled"
        /\ messages[last.id].content = last.exp[1]

C2_Witness ==
    /\ last = Ran("message.canceled", "m1", << <<"a", "b">> >>)
    /\ messages["m1"].status = "canceled"
    /\ messages["m1"].content = <<"a", "b">>

\* C7: once a message's status is completed, errored or canceled, no later
\* event changes it to a different status.
C7_TerminalStatusStays ==
    [][\A m \in DOMAIN messages :
          messages[m].status \in Terminal =>
              messages'[m].status = messages[m].status]_vars

\* C8: once a message's status is completed, errored or canceled, its
\* content never changes again.
C8_TerminalContentStays ==
    [][\A m \in DOMAIN messages :
          messages[m].status \in Terminal =>
              messages'[m].content = messages[m].content]_vars

\* C9: a streaming buffer entry exists only for a message that exists and
\* whose status is streaming.
C9_BufferOnlyWhileStreaming ==
    \A m \in DOMAIN streaming :
        m \in DOMAIN messages /\ messages[m].status = "streaming"

----------------------------------------------------------------------------
(* The tool call events, with TEXT_MESSAGE_START for the parent message.   *)
(* Tool call t1 streams its arguments into m1; t2, with no arguments, ends *)
(* on either message.  The payloads name no conversation: the parent a     *)
(* TOOL_CALL_START creates lands in the active one.                        *)

ToolParents(tc) == IF tc = "t1" THEN {"m1"} ELSE {"m1", "msg_1"}

NextTool ==
    \/ SetActiveConversation("c1")
    \/ \E tc \in TcIds : \E p \in ToolParents(tc) : ToolCallStart(p, tc, "f", NoConv, 1)
    \/ \E d \in Deltas : ToolCallArgs("t1", d)
    \/ \E tc \in TcIds : ToolCallEnd(tc)
    \/ TextMessageStart("m1", "assistant", "c1", 1)

SpecTool == Init /\ [][NextTool]_vars

\* the entries of messages[p].toolCalls whose id is tc
CallsOf(p, tc) == SelectSeq(messages[p].toolCalls, LAMBDA x : x.id = tc)

\* C3 as stated: TOOL_CALL_START(tc, p), any TOOL_CALL_ARGS(tc, a_i), then
\* TOOL_CALL_END(tc) leave messages[p].toolCalls with exactly one entry for
\* tc, whose arguments are the concatenation of the a_i, and no in-progress
\* entry for tc; and no message ever holds two entries for one tool call id.
C3_ToolCallRoundTrip ==
    /\ \A m \in DOMAIN messages : \A tc \in TcIds : Len(CallsOf(m, tc)) <= 1
    /\ (last.op = "TOOL_CALL_END" /\ last.exp # <<>>) =>
           /\ last.exp[1].parent \in DOMAIN messages
           /\ Len(CallsOf(last.exp[1].parent, last.id)) = 1
           /\ CallsOf(last.exp[1].parent, last.id)[1].arguments = last.exp[1].args
           /\ last.id \notin DOMAIN toolCallsInProgress

\* C3 amended: the arguments are the concatenation of the a_i when the
\* parent held no entry for tc before TOOL_CALL_END; an entry it already
\* held for tc stays as it was.
C3_ToolCallRoundTripFresh ==
    /\ \A m \in DOMAIN messages : \A tc \in TcIds : Len(CallsOf(m, tc)) <= 1
    /\ (last.op = "TOOL_CALL_END" /\ last.exp # <<>>) =>
           /\ last.exp[1].parent \in DOMAIN messages
           /\ Len(CallsOf(last.exp[1].parent, last.id)) = 1
           /\ CallsOf(last.exp[1].parent, last.id)[1].arguments =
                 IF last.exp[1].before = <<>>
                 THEN last.exp[1].args
                 ELSE last.exp[1].before[1].arguments
           /\ last.id \notin DOMAIN toolCallsInProgress

C3_Witness ==
    /\ last.op = "TOOL_CALL_END" /\ last.id = "t1" /\ last.exp # <<>>
    /\ last.exp[1] = [parent |-> "m1", args |-> <<"a", "b">>, before |-> <<>>]
    /\ messages["m1"].toolCalls = << [id |-> "t1", name |-> "f", arguments |-> <<"a", "b">>] >>

----------------------------------------------------------------------------
(* loadMessages racing the stream of one message and an optimistic user    *)
(* message in conversation c1; the server holds nothing of c2.             *)

CreatedDocs == {Doc(id, "user", <<"u">>, "c1", "pending", MaxTime, NoTc) : id \in OptimisticIds}

\* a delta arrives for a buffer, or an args string, that is still empty
EmptyBuffer(id) == id \in DOMAIN streaming => streaming[id] = <<>>
EmptyArgs(tc) == tc \in DOMAIN toolCallsInProgress => toolCallsInProgress[tc].args = <<>>

LoadAnswers(c) == IF c = "c1" THEN Answers(c) ELSE {<<>>}

NextLoad ==
    \/ \E m \in CreatedDocs : MessageCreated(m)
    \/ TextMessageStart("m1", "assistant", "c1", MaxTime)
    \/ EmptyBuffer("m1") /\ TextMessageContent("m1", <<"a">>)
    \/ TextMessageEnd("m1")
    \/ \E c \in Convs, force \in BOOLEAN : LoadMessages(c, force)
    \/ \E c \in Convs : \E k \in 1 .. Len(fetching[c]) : \E server \in LoadAnswers(c) :
          LoadResolved(c, k, server)
    \/ \E c \in Convs : \E k \in 1 .. Len(fetching[c]) : LoadRejected(c, k)

SpecLoad == Init /\ [][NextLoad]_vars

----------------------------------------------------------------------------
(* The store: every message event of conversation c1 interleaved with its  *)
(* loadMessages.  m1 streams and is the tool call's parent, msg_1 is the   *)
(* optimistic user message and the tool result.                            *)

StoreAnswers ==
    {ms \in Answers("c1") : \A i \in 1 .. Len(ms) : ms[i].createdAt \in {NoTime, MaxTime}}

NextStore ==
    \/ \E m \in CreatedDocs : MessageCreated(m)
    \/ TextMessageStart("m1", "assistant", "c1", MaxTime)
    \/ EmptyBuffer("m1") /\ TextMessageContent("m1", <<"a">>)
    \/ TextMessageEnd("m1")
    \/ MessageErrored("m1")
    \/ MessageCanceled("m1")
    \/ ToolCallStart("m1", "t1", "f", "c1", MaxTime)
    \/ EmptyArgs("t1") /\ ToolCallArgs("t1", <<"a">>)
    \/ ToolCallEnd("t1")
    \/ ToolCallResult("msg_1", "t1", <<"r">>, "tool", MaxTime)
    \/ \E force \in BOOLEAN : LoadMessages("c1", force)
    \/ \E k \in 1 .. Len(fetching["c1"]) : \E server \in StoreAnswers :
          LoadResolved("c1", k, server)
    \/ \E k \in 1 .. Len(fetching["c1"]) : LoadRejected("c1", k)

SpecStore == Init /\ [][NextStore]_vars

----------------------------------------------------------------------------
(* Claims about loadMessages. *)

\* how often id occurs in ids
Count(ids, id) == Cardinality({i \in 1 .. Len(ids) : ids[i] = id})

ResolvedStep == last'.op = "loadMessages.resolved"

\* the claims' local message: streaming, or with the client-generated prefix
StreamingOrOptimistic(id) == messages[id].status = "streaming" \/ id \in {"msg_1"}

\* C4: when the answer of loadMessages(c) holds a message with the id of a
\* local message of c (streaming, or with the msg_ prefix), the id is in c's
\* sequence exactly once afterwards and the stored record carries the
\* server's content, status and createdAt.
C4_ServerCopyWins ==
    [][ResolvedStep =>
         LET c == last'.id
             server == last'.exp[2]
         IN  \A i \in 1 .. Len(server) :
                 (/\ Includes(SeqOf(c), server[i].id)
                  /\ server[i].id \in DOMAIN messages
                  /\ StreamingOrOptimistic(server[i].id))
                 => /\ Count(messagesByConversation'[c], server[i].id) = 1
                    /\ messages'[server[i].id].content = server[i].content
                    /\ messages'[server[i].id].status = server[i].status
                    /\ messages'[server[i].id].createdAt = server[i].createdAt]_vars

\* C5: at most one getMessages fetch is outstanding per conversation; a
\* loadMessages(c) call made while one is in flight, forced or not, issues no
\* fetch and changes nothing; a call for a conversation with no load in
\* flight (forced, or not yet loaded) issues its fetch whatever the other
\* conversations are doing.
C5_OneFetchPerConversation ==
    /\ [](\A c \in Convs : Len(fetching[c]) <= 1)
    /\ [][last'.op = "loadMessages" =>
            LET c == last'.id
            IN  /\ c \in loadingConversations =>
                       UNCHANGED <<storeVars, loadVars>>
                /\ (c \notin loadingConversations /\ last'.exp[1] = "fetching") =>
                       /\ Len(fetching'[c]) = Len(fetching[c]) + 1
                       /\ \A d \in Convs \ {c} : fetching'[d] = fetching[d]
                /\ (c \notin loadingConversations /\ c \notin loadedConversations) =>
                       last'.exp[1] = "fetching"]_vars

\* two conversations load at once, and a second, forced call for c1 was
\* skipped
C5_Witness ==
    /\ last.op = "loadMessages" /\ last.id = "c1" /\ last.exp = <<"skipped", TRUE>>
    /\ Len(fetching["c1"]) = 1
    /\ Len(fetching["c2"]) = 1
    /\ "c1" \notin loadedConversations

\* C6: a message of c's sequence that is streaming, or has the msg_ prefix,
\* when the fetch of loadMessages(c) completes, and whose id the answer does
\* not hold, is still in c's sequence afterwards, with its record and its
\* streaming buffer as they were.
C6_LocalMessagesSurvive ==
    [][ResolvedStep =>
         LET c == last'.id
             server == last'.exp[2]
         IN  \A id \in DOMAIN messages :
                 (/\ Includes(SeqOf(c), id)
                  /\ StreamingOrOptimistic(id)
                  /\ id \notin IdSet(server))
                 => /\ Includes(messagesByConversation'[c], id)
                    /\ messages'[id] = messages[id]
                    /\ (id \in DOMAIN streaming) = (id \in DOMAIN streaming')
                    /\ id \in DOMAIN streaming => streaming'[id] = streaming[id]]_vars

\* m1 started streaming while the fetch was in flight (the pre-fetch ids do
\* not hold it), the answer held another message, and m1 is kept
C6_Witness ==
    /\ last.op = "loadMessages.resolved" /\ last.id = "c1"
    /\ ~ Includes(last.exp[1], "m1")
    /\ IdSet(last.exp[2]) = {"msg_1"}
    /\ "m1" \in DOMAIN messages /\ messages["m1"].status = "streaming"
    /\ "m1" \in DOMAIN streaming /\ streaming["m1"] = <<"a">>
    /\ Includes(SeqOf("c1"), "m1")

\* C10: every id listed in a conversation's sequence is a key of the
\* messages map.
C10_SequenceIdsExist ==
    \A c \in Convs : \A i \in 1 .. Len(SeqOf(c)) : SeqOf(c)[i] \in DOMAIN messages

\* loadMessages installed the answer's two messages
C10_Witness ==
    /\ last.op = "loadMessages.resolved"
    /\ Len(last.exp[2]) = 2
    /\ Len(SeqOf("c1")) = 2
    /\ "t1" \in DOMAIN toolCallsInProgress

\* C11: no message id appears twice in a conversation's sequence.
C11_NoDuplicateIds ==
    \A c \in Convs : \A id \in MsgIds : Count(SeqOf(c), id) <= 1

\* TEXT_MESSAGE_START came again for m1, which a finished tool call shows
\* was there before, after loadMessages had installed a two-message answer
C11_Witness ==
    /\ last.op = "TEXT_MESSAGE_START" /\ last.id = "m1"
    /\ "m1" \in DOMAIN messages /\ messages["m1"].toolCalls # <<>>
    /\ "c1" \in loadedConversations
    /\ Len(SeqOf("c1")) = 2
    /\ Count(SeqOf("c1"), "m1") = 1

RejectedStep == last'.op = "loadMessages.rejected"

\* C16 as stated: when getMessages fails, the store's maps are untouched, c
\* is not in the loaded set and not in the in-flight set afterwards.
C16_FailedLoadLeavesUnloaded ==
    [][RejectedStep =>
         /\ UNCHANGED storeVars
         /\ last'.id \notin loadedConversations'
         /\ last'.id \notin loadingConversations']_vars

\* C16 amended: the failed load leaves the loaded set as it was, so the next
\* unforced loadMessages(c) fetches again unless an earlier load had already
\* marked c loaded.
C16_FailedLoadChangesNothing ==
    /\ [][RejectedStep =>
            /\ UNCHANGED storeVars
            /\ loadedConversations' = loadedConversations
            /\ last'.id \notin loadingConversations']_vars
    /\ [][(/\ last.op = "loadMessages.rejected"
            /\ last'.op = "loadMessages" /\ last'.id = last.id
            /\ last.id \notin loadedConversations)
           => last'.exp[1] = "fetching"]_vars

\* the fetch of c1 failed while m1 was streaming; c1 was never loaded
C16_Witness ==
    /\ last.op = "loadMessages.rejected" /\ last.id = "c1"
    /\ "c1" \notin loadedConversations /\ "c1" \notin loadingConversations
    /\ "m1" \in DOMAIN streaming /\ streaming["m1"] = <<"a">>
    /\ Includes(SeqOf("c1"), "msg_1")

----------------------------------------------------------------------------
(* The attachment events and snapshots of two conversations, with the      *)
(* active conversation switching between them.                             *)

AttachmentPayload(id, state) == [id |-> id, state |-> state]
\* the snapshots of a STATE_SNAPSHOT payload: no key, one question, an
\* attachments map that is empty or holds a1, or both keys
Snapshot(ks, as, qs) == [keys |-> ks, attachments |-> as, suggestedQuestions |-> qs]
Snapshots ==
    {Snapshot({}, <<>>, <<>>),
     Snapshot({"suggestedQuestions"}, <<>>, <<"q">>),
     Snapshot({"attachments"}, <<>>, <<>>),
     Snapshot({"attachments"}, <<AttachmentPayload("a1", "uploading")>>, <<>>),
     Snapshot(AgentKeys, <<AttachmentPayload("a1", "uploading")>>, <<"q">>)}
FailedErrors == {<<>>, <<HookError("x")>>}

\* a1 goes through every attachment event; a2 is only ever uploading
NextAttach ==
    \/ \E c \in Convs : SetActiveConversation(c)
    \/ \E id \in AttIds : AttachmentUploading(AttachmentPayload(id, "uploading"))
    \/ AttachmentAvailable(AttachmentPayload("a1", "available"))
    \/ \E p \in Progresses : AttachmentProgress("a1", p)
    \/ \E id \in AttIds, e \in FailedErrors : AttachmentFailed(id, e)

SpecAttach == Init /\ [][NextAttach]_vars

----------------------------------------------------------------------------
(* Snapshots for the active conversation c1 and for c2, around the upload  *)
(* of a1 in c1.                                                            *)

NextSnapshot ==
    \/ SetActiveConversation("c1")
    \/ AttachmentUploading(AttachmentPayload("a1", "uploading"))
    \/ AttachmentAvailable(AttachmentPayload("a1", "available"))
    \/ \E c \in {"c2", NoConv}, s \in Snapshots : StateSnapshot(c, <<s>>)
    \/ StateSnapshot(NoConv, <<>>)

SpecSnapshot == Init /\ [][NextSnapshot]_vars

\* what is read through a reference: the attachment with its metadata
Attachment(objs, metas, r) ==
    [id |-> objs[r].id, state |-> objs[r].state,
     progress |-> metas[objs[r].metadata].progress,
     error |-> metas[objs[r].metadata].error]
\* what is read from a map of attachments
AttachmentsRead(objs, metas, atts) ==
    [id \in DOMAIN atts |-> Attachment(objs, metas, atts[id])]
\* what is read from state.agentStateByConversation
AgentStateRead(ags, objs, metas) ==
    [c \in DOMAIN ags |->
        [keys |-> ags[c].keys,
         attachments |-> AttachmentsRead(objs, metas, ags[c].attachments),
         suggestedQuestions |-> ags[c].suggestedQuestions]]
GlobalNow == AttachmentsRead(attachmentObjects, metadataObjects, attachments)
GlobalNext == AttachmentsRead(attachmentObjects', metadataObjects', attachments')
AgentNow == AgentStateRead(agentStateByConversation, attachmentObjects, metadataObjects)
AgentNext == AgentStateRead(agentStateByConversation', attachmentObjects', metadataObjects')

----------------------------------------------------------------------------
(* Claims about attachments and agent state. *)

FailedStep == last'.op = "attachment.failed"

\* C12: attachment.failed for a fileId the active conversation's attachments
\* do not hold (or with no active conversation) leaves what
\* agentStateByConversation holds unchanged; the global entry, when there is
\* one, gets state failed and metadata.error.
C12_FailureCreatesNoEntry ==
    [][(FailedStep /\ ~ HasEntry(activeConversationId, last'.id)) =>
         /\ AgentNext = AgentNow
         /\ DOMAIN GlobalNext = DOMAIN GlobalNow
         /\ last'.id \in DOMAIN GlobalNow =>
                /\ GlobalNext[last'.id].state = "failed"
                /\ GlobalNext[last'.id].error = last'.exp]_vars

\* C13: an entry of a conversation's attachments whose state is available
\* stays in the map, and its state stays available unless attachment.failed
\* makes it failed.
C13_AvailableStays ==
    [][\A c \in DOMAIN AgentNow : \A id \in DOMAIN AgentNow[c].attachments :
          AgentNow[c].attachments[id].state = "available" =>
              /\ c \in DOMAIN AgentNext
              /\ id \in DOMAIN AgentNext[c].attachments
              /\ \/ AgentNext[c].attachments[id].state = "available"
                 \/ /\ FailedStep
                    /\ AgentNext[c].attachments[id].state = "failed"]_vars

\* C15: setActiveConversation(id) makes id the active conversation and
\* leaves the global attachments map empty; the agent states and the message
\* maps are as they were.
C15_SwitchClearsGlobalOnly ==
    [][last'.op = "setActiveConversation" =>
         /\ activeConversationId' = last'.id
         /\ DOMAIN attachments' = {}
         /\ AgentNext = AgentNow
         /\ UNCHANGED <<messages, messagesByConversation, streaming,
                        toolCallsInProgress>>]_vars

SnapshotStep ==
    last'.op = "STATE_SNAPSHOT" /\ last'.id # NoConv /\ last'.exp # <<>>

\* the attachments a snapshot carries, as they read once stored
SnapshotAttachments(s) ==
    [id \in {s.attachments[i].id : i \in 1 .. Len(s.attachments)} |->
        [id |-> id,
         state |-> s.attachments[CHOOSE i \in 1 .. Len(s.attachments) :
                                    s.attachments[i].id = id].state,
         progress |-> NoProgress, error |-> <<>>]]

\* C14: STATE_SNAPSHOT for conversation c sets every top-level key the
\* snapshot has to the snapshot's value, and leaves c's other keys and the
\* other conversations' agent states as they were.
C14_SnapshotMergesKeys ==
    [][SnapshotStep =>
         LET c == last'.id
             s == last'.exp[1]
             before == AgentStateOf(AgentNow, c)
             after == AgentNext[c]
         IN  /\ DOMAIN AgentNext = (DOMAIN AgentNow) \cup {c}
             /\ \A d \in (DOMAIN AgentNow) \ {c} : AgentNext[d] = AgentNow[d]
             /\ after.keys = before.keys \cup s.keys
             /\ after.attachments =
                   IF "attachments" \in s.keys
                   THEN SnapshotAttachments(s)
                   ELSE before.attachments
             /\ after.suggestedQuestions =
                   IF "suggestedQuestions" \in s.keys
                   THEN s.suggestedQuestions
                   ELSE before.suggestedQuestions]_vars

\* a snapshot with only suggestedQuestions came for the active conversation
\* c1, whose attachments still hold the available a1; c2 has a state too
C14_Witness ==
    /\ last.op = "STATE_SNAPSHOT" /\ last.id = "c1"
    /\ last.exp = << Snapshot({"suggestedQuestions"}, <<>>, <<"q">>) >>
    /\ "c1" \in DOMAIN AgentNow /\ "c2" \in DOMAIN AgentNow
    /\ AgentNow["c1"].keys = AgentKeys
    /\ "a1" \in DOMAIN AgentNow["c1"].attachments
    /\ AgentNow["c1"].attachments["a1"].state = "available"
    /\ AgentNow["c1"].suggestedQuestions = <<"q">>

----------------------------------------------------------------------------
(* useFileUpload: uploadFile's three awaits (initiateUpload,               *)
(* uploadToPresignedUrl, uploadComplete) cut it into steps; phase[f] is    *)
(* the await file f's call stands at.  The events it emits reach the       *)
(* store's handlers within the same step.                                  *)

\* `temp-${Date.now()}-${random}`, one per call of uploadFile
Temp(f) == IF f = "f1" THEN "temp-f1" ELSE "temp-f2"
TempIds == {Temp(f) : f \in Files}
\* the content_id initiateUpload answers with
Content(f) == IF f = "f1" THEN "a1" ELSE "a2"
NoContent == "undefined"
\* progress: { loaded: 0, total: file.size, percentage: 0 }
InitialProgress == 0

\* { ...prev[tempId] } of an entry that is not there: no key at all
MissingEntry ==
    [status |-> "undefined", contentId |-> NoContent, progress |-> NoProgress,
     error |-> <<>>]
EntryOf(ups, k) == IF k \in DOMAIN ups THEN ups[k] ELSE MissingEntry

\* setUploads(prev => ({ ...prev, [tempId]: { fileId, file, progress, status:
\* 'pending' } })) for each file of the call
RECURSIVE InitEntries(_, _)
InitEntries(ups, fs) ==
    IF fs = {} THEN ups
    ELSE LET f == CHOOSE x \in fs : TRUE
         IN  InitEntries(Put(ups, Temp(f),
                             [status |-> "pending", contentId |-> NoContent,
                              progress |-> InitialProgress, error |-> <<>>]),
                         fs \ {f})

\* uploadFiles(files): files.map(uploadFile) runs every uploadFile up to its
\* first await; uploadFile(file) is uploadFiles of one file
UploadFiles(fs) ==
    /\ fs # {}
    /\ \A f \in fs : phase[f] = "idle"
    /\ uploads' = InitEntries(uploads, fs)
    /\ phase' = [f \in Files |-> IF f \in fs THEN "initiate" ELSE phase[f]]
    /\ last' = Ran("uploadFiles", "undefined", <<fs>>)
    /\ UNCHANGED <<emitted, canceled, attachVars, storeVars, loadVars, persistVars, sent, tcSent, reported, conversations>>

Emit(kind, id) == emitted \cup {[kind |-> kind, id |-> id]}

\* initiateUpload resolved: contentId is written, attachment.uploading is
\* emitted with the content id, the status becomes uploading, and the
\* transfer starts
InitiateResolved(f) ==
    /\ phase[f] = "initiate"
    /\ uploads' = Put(uploads, Temp(f),
                      [EntryOf(uploads, Temp(f)) EXCEPT !.contentId = Content(f),
                                                        !.status = "uploading"])
    /\ StoreAttachment(AttachmentPayload(Content(f), "uploading"))
    /\ emitted' = Emit("attachment.uploading", Content(f))
    /\ phase' = [phase EXCEPT ![f] = "transfer"]
    /\ last' = Ran("uploadFile.uploading", Temp(f), <<>>)
    /\ UNCHANGED <<canceled, storeVars, loadVars, persistVars, sent, tcSent, reported, conversations>>

\* the transfer's onProgress callback
TransferProgress(f, p) ==
    /\ phase[f] = "transfer"
    /\ uploads' = Put(uploads, Temp(f), [EntryOf(uploads, Temp(f)) EXCEPT !.progress = p])
    /\ StoreProgress(Content(f), p)
    /\ emitted' = Emit("attachment.progress", Content(f))
    /\ last' = Ran("uploadFile.progress", Temp(f), <<>>)
    /\ UNCHANGED <<phase, canceled, storeVars, loadVars, persistVars, sent, tcSent, reported, conversations>>

\* uploadToPresignedUrl resolved: uploadComplete is called
TransferResolved(f) ==
    /\ phase[f] = "transfer"
    /\ phase' = [phase EXCEPT ![f] = "finalize"]
    /\ last' = Ran("uploadFile.transferred", Temp(f), <<>>)
    /\ UNCHANGED <<uploads, emitted, canceled, attachVars, storeVars, loadVars,
                   persistVars, sent, tcSent, reported, conversations>>

\* result.status === 'available' ? 'available' : 'uploaded'
CompletedState(status) == IF status = "available" THEN "available" ELSE "uploaded"

\* uploadComplete resolved with result.status: the status becomes completed,
\* attachment.available is emitted, and the cleanup timer is set
FinalizeResolved(f, status) ==
    /\ phase[f] = "finalize"
    /\ uploads' = Put(uploads, Temp(f),
                      [EntryOf(uploads, Temp(f)) EXCEPT !.status = "completed",
                                                        !.contentId = Content(f)])
    /\ StoreAttachment(AttachmentPayload(Content(f), CompletedState(status)))
    /\ emitted' = Emit("attachment.available", Content(f))
    /\ phase' = [phase EXCEPT ![f] = "completed"]
    /\ last' = Ran("uploadFile.completed", Temp(f), <<>>)
    /\ UNCHANGED <<canceled, storeVars, loadVars, persistVars, sent, tcSent, reported, conversations>>

\* the setTimeout callback, a second after completion
CleanUp(f) ==
    /\ phase[f] = "completed"
    /\ uploads' = Del(uploads, Temp(f))
    /\ phase' = [phase EXCEPT ![f] = "done"]
    /\ last' = Ran("uploadFile.cleanup", Temp(f), <<>>)
    /\ UNCHANGED <<emitted, canceled, attachVars, storeVars, loadVars, persistVars, sent, tcSent, reported, conversations>>

\* a bug: the catch block marks every entry failed
FailAllEntries(ups, k, msg) ==
    [x \in (DOMAIN ups) \cup {k} |->
        [EntryOf(ups, x) EXCEPT !.status = "failed", !.error = <<msg>>]]

\* setUploads(prev => ({ ...prev, [tempId]: { ...prev[tempId], status:
\* 'failed', error } }))
FailEntry(ups, k, msg) ==
    Put(ups, k, [EntryOf(ups, k) EXCEPT !.status = "failed", !.error = <<msg>>])

\* uploads()[tempId]?.contentId || tempId
FailedFileId(ups, k) == IF ups[k].contentId # NoContent THEN ups[k].contentId ELSE k

\* one of the three awaits rejected: the catch block marks the entry failed,
\* emits attachment.failed and rethrows
Rejected(f, msg) ==
    /\ phase[f] \in {"initiate", "transfer", "finalize"}
    /\ uploads' = FailEntry(uploads, Temp(f), msg)
    /\ StoreFailure(FailedFileId(uploads', Temp(f)), <<HookError(msg)>>)
    /\ emitted' = Emit("attachment.failed", FailedFileId(uploads', Temp(f)))
    /\ phase' = [phase EXCEPT ![f] = "failed"]
    /\ last' = Ran("uploadFile.failed", Temp(f), <<phase[f]>>)
    /\ UNCHANGED <<canceled, storeVars, loadVars, persistVars, sent, tcSent, reported, conversations>>

\* the file whose call made the entry k, as a set
FileOf(k) == {f \in Files : Temp(f) = k}

\* cancelUpload(fileId): the entry is deleted; nothing reaches the transfer
CancelUpload(k) ==
    /\ uploads' = Del(uploads, k)
    /\ canceled' = canceled \cup {x \in {k} : \E f \in FileOf(k) : phase[f] = "transfer"}
    /\ last' = Ran("cancelUpload", k, <<>>)
    /\ UNCHANGED <<phase, emitted, attachVars, storeVars, loadVars, persistVars, sent, tcSent, reported, conversations>>

\* clearUploads(): the entries that are uploading or pending stay
ClearUploads ==
    /\ uploads' = [k \in {x \in DOMAIN uploads :
                              uploads[x].status \in {"uploading", "pending"}} |->
                      uploads[k]]
    /\ last' = Ran("clearUploads", "undefined", <<>>)
    /\ UNCHANGED <<phase, emitted, canceled, attachVars, storeVars, loadVars,
                   persistVars, sent, tcSent, reported, conversations>>

\* f1 alone, or both files in one call of uploadFiles
Batches == {{"f1"}, {"f1", "f2"}}
FinalizeAnswers == {"uploaded", "processing", "available"}

NextUpload ==
    \/ SetActiveConversation("c1")
    \/ \E fs \in Batches : UploadFiles(fs)
    \/ \E f \in Files : InitiateResolved(f)
    \/ \E f \in Files, p \in Progresses : TransferProgress(f, p)
    \/ \E f \in Files : TransferResolved(f)
    \/ \E f \in Files, s \in FinalizeAnswers : FinalizeResolved(f, s)
    \/ \E f \in Files : CleanUp(f)
    \/ \E f \in Files : Rejected(f, "rejected")
    \/ \E k \in TempIds \cup AttIds : CancelUpload(k)
    \/ ClearUploads

SpecUpload == Init /\ [][NextUpload]_vars

----------------------------------------------------------------------------
(* Claims about useFileUpload. *)

\* the other entries of the uploads map are as they were
OthersUntouched(k) ==
    /\ (DOMAIN uploads') \ {k} = (DOMAIN uploads) \ {k}
    /\ \A x \in (DOMAIN uploads) \ {k} : uploads'[x] = uploads[x]

\* C17: a rejected await of one file marks that file's entry failed and
\* writes no other entry of the uploads map, and leaves the other files'
\* calls where they stand; a file whose three awaits resolve gets status
\* completed and attachment.available is emitted for it, whatever became of
\* the other file.
C17_UploadsAreIsolated ==
    /\ [][last'.op = "uploadFile.failed" =>
            /\ uploads'[last'.id].status = "failed"
            /\ OthersUntouched(last'.id)
            /\ \A f \in Files : Temp(f) # last'.id => phase'[f] = phase[f]]_vars
    /\ [][last'.op = "uploadFile.completed" =>
            /\ uploads'[last'.id].status = "completed"
            /\ OthersUntouched(last'.id)
            /\ \E f \in FileOf(last'.id) :
                   [kind |-> "attachment.available", id |-> Content(f)] \in emitted']_vars

\* both files went into one uploadFiles call; f2's initiate was rejected,
\* and f1 has just completed
C17_Witness ==
    /\ last.op = "uploadFile.completed" /\ last.id = "temp-f1"
    /\ phase["f2"] = "failed"
    /\ "temp-f2" \in DOMAIN uploads
    /\ uploads["temp-f2"] = [status |-> "failed", contentId |-> NoContent,
                             progress |-> InitialProgress, error |-> <<"rejected">>]
    /\ uploads["temp-f1"].status = "completed"
    /\ [kind |-> "attachment.available", id |-> "a1"] \in emitted
    /\ [kind |-> "attachment.failed", id |-> "temp-f2"] \in emitted

UploadStatuses == {"pending", "uploading", "completed", "failed"}

\* C18: an entry's status is one of pending, uploading, completed, failed,
\* and it only ever goes from pending to uploading, from uploading to
\* completed, and from pending or uploading to failed.
C18_StatusMachine ==
    /\ [](\A k \in DOMAIN uploads : uploads[k].status \in UploadStatuses)
    /\ [][\A k \in (DOMAIN uploads) \cap (DOMAIN uploads') :
              \/ uploads'[k].status = uploads[k].status
              \/ uploads[k].status = "pending" /\ uploads'[k].status = "uploading"
              \/ uploads[k].status = "uploading" /\ uploads'[k].status = "completed"
              \/ /\ uploads[k].status \in {"pending", "uploading"}
                 /\ uploads'[k].status = "failed"]_vars

\* C19: once cancelUpload(k) was called during k's transfer, the uploads
\* map never holds k again and neither attachment.progress nor
\* attachment.available is emitted for the file any more.
C19_CancelStopsTheUpload ==
    [][\A k \in canceled :
          /\ k \notin DOMAIN uploads'
          /\ \A f \in FileOf(k) :
                 ~ (/\ last'.op \in {"uploadFile.progress", "uploadFile.completed"}
                    /\ last'.id = k)]_vars

----------------------------------------------------------------------------
(* persistence.ts: the agent state map saved to and loaded from            *)
(* localStorage.  The stored item is the text JSON.stringify made; the     *)
(* model keeps it as the value that text denotes, which is what JSON.parse *)
(* gives back.                                                             *)

STORAGE_VERSION == 1

\* JSON.stringify of an attachment.failed error: an Error instance has no
\* enumerable message, so details comes back as a plain object
JsonError(e) ==
    [e EXCEPT !.details = IF @ = "Error" THEN "object" ELSE @]

JsonAttachment(a) ==
    [a EXCEPT !.error = IF @ = <<>> THEN <<>> ELSE <<JsonError(@[1])>>]

\* JSON.parse(JSON.stringify(state)) of an agent state map
Json(state) ==
    [c \in DOMAIN state |->
        [state[c] EXCEPT !.attachments =
            [id \in DOMAIN @ |-> JsonAttachment(@[id])]]]

\* the state holds nothing JSON.stringify changes
IsJsonData(state) ==
    \A c \in DOMAIN state : \A id \in DOMAIN state[c].attachments :
        LET e == state[c].attachments[id].error
        IN  e # <<>> => e[1].details # "Error"

\* { version, timestamp, data } as stored; parses is FALSE for an item that
\* is not JSON text
Persisted(version, data) == [parses |-> TRUE, version |-> version, data |-> data]
NotJson == [parses |-> FALSE, version |-> 0, data |-> EmptyMap]

\* saveAgentState(state): state is the store's agentStateByConversation;
\* quota is whether localStorage.setItem throws, which the catch swallows
SaveAgentState(quota) ==
    /\ localStorage' = IF quota THEN localStorage
                       ELSE << Persisted(STORAGE_VERSION, Json(AgentNow)) >>
    /\ last' = Ran("saveAgentState", IF quota THEN "failed" ELSE "written", <<AgentNow>>)
    /\ UNCHANGED <<timeoutId, calls, runs>>
    /\ UNCHANGED <<attachVars, uploadVars, storeVars, loadVars, sent, tcSent, reported, conversations>>

\* a bug: the version of the stored record is not looked at
VersionIsAny(version) == TRUE

\* parsed.version !== STORAGE_VERSION
VersionIsCurrent(version) == version = STORAGE_VERSION

\* what loadAgentState() returns: <<>> for null
LoadResult(item) ==
    IF item = <<>> THEN <<>>
    ELSE IF ~ item[1].parses THEN <<>>
    ELSE IF ~ VersionIsCurrent(item[1].version) THEN <<>>
    ELSE <<item[1].data>>

\* loadAgentState()
LoadAgentState ==
    /\ last' = Ran("loadAgentState",
                   IF LoadResult(localStorage) = <<>> THEN "null" ELSE "data",
                   LoadResult(localStorage))
    /\ UNCHANGED <<attachVars, uploadVars, persistVars, storeVars, loadVars,
                   sent, tcSent, reported, conversations>>

\* clearPersistedState()
ClearPersistedState ==
    /\ localStorage' = <<>>
    /\ last' = Ran("clearPersistedState", "undefined", <<>>)
    /\ UNCHANGED <<timeoutId, calls, runs>>
    /\ UNCHANGED <<attachVars, uploadVars, storeVars, loadVars, sent, tcSent, reported, conversations>>

\* the item as another writer left it: a record of another format version,
\* or text that is not JSON
ForeignItems == {Persisted(STORAGE_VERSION + 1, EmptyMap), NotJson}

StorageWritten(item) ==
    /\ localStorage' = <<item>>
    /\ last' = Ran("setItem", "undefined", <<>>)
    /\ UNCHANGED <<timeoutId, calls, runs>>
    /\ UNCHANGED <<attachVars, uploadVars, storeVars, loadVars, sent, tcSent, reported, conversations>>

\* the agent state is built by an upload of a1 in conversation c1 that may
\* fail, a snapshot with a question, and a late failure without an error
PersistSnapshots == {Snapshot({"suggestedQuestions"}, <<>>, <<"q">>)}

NextPersist ==
    \/ SetActiveConversation("c1")
    \/ \E fs \in {{"f1"}} : UploadFiles(fs)
    \/ InitiateResolved("f1")
    \/ \E p \in Progresses : TransferProgress("f1", p)
    \/ TransferResolved("f1")
    \/ FinalizeResolved("f1", "available")
    \/ Rejected("f1", "rejected")
    \/ AttachmentFailed("a1", <<>>)
    \/ \E s \in PersistSnapshots : StateSnapshot("c2", <<s>>)
    \/ \E quota \in BOOLEAN : SaveAgentState(quota)
    \/ LoadAgentState
    \/ ClearPersistedState
    \/ \E item \in ForeignItems : StorageWritten(item)

SpecPersist == Init /\ [][NextPersist]_vars

\* C20 as stated: loadAgentState() right after saveAgentState(state) returns
\* state; loadAgentState() returns null when nothing is stored and when the
\* stored version is not the current one.
C20_SaveLoadRoundTrip ==
    /\ [][(last.op = "saveAgentState" /\ last'.op = "loadAgentState") =>
            last'.id = "data" /\ last'.exp = last.exp]_vars
    /\ [][last'.op = "loadAgentState" =>
            /\ localStorage = <<>> => last'.id = "null"
            /\ (localStorage # <<>> /\ localStorage[1].version # STORAGE_VERSION)
                  => last'.id = "null"]_vars

\* C20 amended: when the write went through, the load returns the JSON
\* round trip of state, which is state itself when state is JSON data; null
\* comes back when nothing is stored, when the item is not JSON and when its
\* version is not the current one.
C20_SaveLoadJsonRoundTrip ==
    /\ [][(/\ last.op = "saveAgentState" /\ last.id = "written"
            /\ last'.op = "loadAgentState") =>
            /\ last'.id = "data"
            /\ last'.exp = <<Json(last.exp[1])>>
            /\ IsJsonData(last.exp[1]) => last'.exp = last.exp]_vars
    /\ [][last'.op = "loadAgentState" =>
            /\ localStorage = <<>> => last'.id = "null"
            /\ (localStorage # <<>> /\ ~ localStorage[1].parses) => last'.id = "null"
            /\ (localStorage # <<>> /\ localStorage[1].version # STORAGE_VERSION)
                  => last'.id = "null"]_vars

\* the state with a1 failed without an error object and c2's question was
\* saved and loaded back
C20_Witness ==
    /\ last.op = "loadAgentState" /\ last.id = "data"
    /\ last.exp = <<AgentNow>>
    /\ DOMAIN AgentNow = {"c1", "c2"}
    /\ "a1" \in DOMAIN AgentNow["c1"].attachments
    /\ AgentNow["c1"].attachments["a1"].error = <<UploadFailedString>>
    /\ AgentNow["c2"].suggestedQuestions = <<"q">>

----------------------------------------------------------------------------
(* debounce(saveAgentState, 500).  timeoutId is <<>> for null; a pending   *)
(* timer is <<args>>, the arguments the setTimeout callback closes over.   *)
(* The model has no clock: a timer that is pending fires at some later     *)
(* step, which is when its 500 ms have passed.                             *)

\* longest burst of debounced calls the history follows
MaxBurst == 3

\* a bug: the pending timer is left alone, so the first call's arguments win
RearmKeepsPending(pending, args) == IF pending = <<>> THEN <<args>> ELSE pending

\* if (timeoutId) clearTimeout(timeoutId); timeoutId = setTimeout(() => {
\* fn(...args); timeoutId = null }, delay)
Rearm(pending, args) == <<args>>

\* debouncedSaveAgentState(state)
DebouncedSaveAgentState(state) ==
    /\ Len(calls) < MaxBurst \/ timeoutId = <<>>
    /\ timeoutId' = Rearm(timeoutId, state)
    /\ calls' = IF timeoutId = <<>> THEN <<state>> ELSE Append(calls, state)
    /\ runs' = IF timeoutId = <<>> THEN 0 ELSE runs
    /\ last' = Ran("debouncedSaveAgentState", "undefined", <<state>>)
    /\ UNCHANGED <<localStorage, attachVars, uploadVars, storeVars, loadVars,
                   sent, tcSent, reported, conversations>>

\* the timer's callback: fn(...args) is saveAgentState(state), whose catch
\* swallows a setItem that throws (quota); then timeoutId = null
TimerFired(quota) ==
    /\ timeoutId # <<>>
    /\ localStorage' = IF quota THEN localStorage
                       ELSE << Persisted(STORAGE_VERSION, Json(timeoutId[1])) >>
    /\ timeoutId' = <<>>
    /\ runs' = runs + 1
    /\ last' = Ran("debounce.fired", IF quota THEN "failed" ELSE "written",
                   <<timeoutId[1]>>)
    /\ UNCHANGED <<calls, attachVars, uploadVars, storeVars, loadVars, sent, tcSent, reported, conversations>>

\* the agent state maps the callers pass, as they read: nothing, c1 with a
\* question, and c1 with a failed attachment whose error holds an Error
QuestionState ==
    [keys |-> {"suggestedQuestions"}, attachments |-> EmptyMap,
     suggestedQuestions |-> <<"q">>]
FailedState ==
    [keys |-> {"attachments"},
     attachments |-> [id \in {"a1"} |->
                         [id |-> "a1", state |-> "failed", progress |-> NoProgress,
                          error |-> <<HookError("x")>>]],
     suggestedQuestions |-> <<>>]
SaveStates ==
    {EmptyMap, [c \in {"c1"} |-> QuestionState], [c \in {"c1"} |-> FailedState]}

NextDebounce ==
    \/ \E s \in SaveStates : DebouncedSaveAgentState(s)
    \/ \E quota \in BOOLEAN : TimerFired(quota)
    \/ LoadAgentState
    \/ ClearPersistedState

\* the event loop runs a timer that is due
SpecDebounce ==
    Init /\ [][NextDebounce]_vars /\ WF_vars(\E quota \in BOOLEAN : TimerFired(quota))

\* C21: a burst of debouncedSaveAgentState calls, each arriving while the
\* previous call's timer is pending, leads to exactly one save, after the
\* burst's last call and with that call's argument; a call made once the
\* timer has fired starts a new burst with a save of its own.
C21_OneSavePerBurst ==
    /\ [](timeoutId # <<>> => runs = 0 /\ calls # <<>>)
    /\ [](timeoutId = <<>> /\ calls # <<>> => runs = 1)
    /\ [][last'.op = "debounce.fired" =>
            /\ last'.exp = <<calls[Len(calls)]>>
            /\ last'.id = "written" =>
                   localStorage' = << Persisted(STORAGE_VERSION, Json(calls[Len(calls)])) >>
            /\ UNCHANGED calls]_vars
    /\ [][localStorage' # localStorage =>
            last'.op \in {"debounce.fired", "clearPersistedState"}]_vars
    /\ [][(last'.op = "debouncedSaveAgentState" /\ timeoutId = <<>>) =>
            calls' = last'.exp /\ runs' = 0]_vars
    /\ [](timeoutId # <<>> => <>(timeoutId = <<>>))

\* a burst of three calls ended in one save, of the third call's state
C21_Witness ==
    /\ last.op = "debounce.fired" /\ last.id = "written"
    /\ Len(calls) = MaxBurst
    /\ calls[1] = EmptyMap /\ calls[2] = [c \in {"c1"} |-> FailedState]
    /\ calls[MaxBurst] = [c \in {"c1"} |-> QuestionState]
    /\ runs = 1
    /\ localStorage = << Persisted(STORAGE_VERSION, [c \in {"c1"} |-> QuestionState]) >>

----------------------------------------------------------------------------
(* Further claims about the message handlers. *)

\* C22: TEXT_MESSAGE_START(m) creates the message (status streaming, empty
\* content) and opens an empty buffer only when m is not in the messages
\* map; for an m that is there, the message's content, status and createdAt
\* and the text of its streaming buffer stay as they were.
C22_StartOnlyCreates ==
    [][last'.op = "TEXT_MESSAGE_START" =>
         LET m == last'.id
         IN  IF m \in DOMAIN messages
             THEN /\ messages'[m].content = messages[m].content
                  /\ messages'[m].status = messages[m].status
                  /\ messages'[m].createdAt = messages[m].createdAt
                  /\ (m \in DOMAIN streaming) = (m \in DOMAIN streaming')
                  /\ m \in DOMAIN streaming => streaming'[m] = streaming[m]
             ELSE /\ messages'[m].status = "streaming"
                  /\ messages'[m].content = <<>>
                  /\ streaming'[m] = <<>>]_vars

----------------------------------------------------------------------------
(* The tool call events of two parents, with payloads that name            *)
(* conversation c2 or none, before and after c1 becomes the active         *)
(* conversation; m1 may be there already, streaming, when its tool call    *)
(* starts.  As in NextTool, t1 runs on m1 and t2 on either parent.         *)

CallConvs == {NoConv, "c2"}

NextCalls ==
    \/ SetActiveConversation("c1")
    \/ TextMessageStart("m1", "assistant", NoConv, 1)
    \/ \E tc \in TcIds, conv \in CallConvs : \E p \in ToolParents(tc) :
          ToolCallStart(p, tc, "f", conv, MaxTime)
    \/ EmptyArgs("t1") /\ ToolCallArgs("t1", <<"a">>)
    \/ \E tc \in TcIds : ToolCallEnd(tc)

SpecCalls == Init /\ [][NextCalls]_vars

\* the message TOOL_CALL_START is to create for a parent that is not there
Placeholder(p, cid, t) ==
    [id |-> p, role |-> "assistant", content |-> <<>>, conversationId |-> cid,
     status |-> "completed", createdAt |-> t, toolCallId |-> NoTc,
     toolCalls |-> <<>>]

\* C23: TOOL_CALL_START(tc, parent p) for a p the messages map does not hold
\* creates messages[p], an assistant message with status completed and empty
\* content, in the payload's conversation (the active one when the payload
\* names none) and inserts p into that conversation's sequence; for a p that
\* is there, messages and the sequences stay as they were.  Either way the
\* only other write is toolCallsInProgress[tc], with empty args and
\* messageId p.
C23_StartSynthesizesParent ==
    [][\A p \in MsgIds, tc \in TcIds, conv \in CallConvs :
          ToolCallStart(p, tc, "f", conv, MaxTime) =>
              LET cid == IF conv # NoConv THEN conv ELSE activeConversationId
              IN  /\ IF p \notin DOMAIN messages
                     THEN /\ messages' = Put(messages, p, Placeholder(p, cid, MaxTime))
                          /\ cid # NoConv =>
                                /\ messagesByConversation'[cid] = Append(SeqOf(cid), p)
                                /\ \A d \in Convs \ {cid} :
                                       messagesByConversation'[d] = SeqOf(d)
                          /\ cid = NoConv => UNCHANGED messagesByConversation
                     ELSE UNCHANGED <<messages, messagesByConversation>>
                  /\ toolCallsInProgress' =
                        Put(toolCallsInProgress, tc,
                            [id |-> tc, name |-> "f", args |-> <<>>, messageId |-> p])
                  /\ UNCHANGED <<streaming, activeConversationId, loadVars,
                                 attachVars>>]_vars

\* t1 started on m1, which was streaming in c1; t2 then started on msg_1
\* with a payload naming c2, which made the placeholder there
C23_Witness ==
    /\ last = Ran("TOOL_CALL_START", "t2", <<>>)
    /\ activeConversationId = "c1"
    /\ "m1" \in DOMAIN messages /\ messages["m1"].status = "streaming"
    /\ SeqOf("c1") = <<"m1">>
    /\ "t1" \in DOMAIN toolCallsInProgress
    /\ toolCallsInProgress["t1"].messageId = "m1"
    /\ toolCallsInProgress["t2"].messageId = "msg_1"
    /\ messages["msg_1"] = Placeholder("msg_1", "c2", MaxTime)
    /\ SeqOf("c2") = <<"msg_1">>

\* C24: TOOL_CALL_END(tc) with no toolCallsInProgress entry for tc (never
\* started, or ended already) is reported on the console and changes no
\* message, no toolCallsInProgress entry, no sequence and nothing else of the
\* store.
C24_UnknownEndIsReported ==
    [][(last'.op = "TOOL_CALL_END" /\ last'.id \notin DOMAIN toolCallsInProgress) =>
         /\ [what |-> "No tool call in progress for ID", id |-> last'.id] \in reported'
         /\ UNCHANGED <<storeVars, loadVars, attachVars>>]_vars

\* t1 ran into m1 and ended; a second TOOL_CALL_END for t1 was reported,
\* while t2 is still in progress
C24_Witness ==
    /\ last = Ran("TOOL_CALL_END", "t1", <<>>)
    /\ "m1" \in DOMAIN messages
    /\ messages["m1"].toolCalls = << [id |-> "t1", name |-> "f", arguments |-> <<"a">>] >>
    /\ "t1" \notin DOMAIN toolCallsInProgress
    /\ "t2" \in DOMAIN toolCallsInProgress
    /\ reported = {[what |-> "No tool call in progress for ID", id |-> "t1"]}

----------------------------------------------------------------------------
(* The two storing attachment events in two conversations, one of which    *)
(* also gets a snapshot with a question.                                   *)

UploadingPayloads == {AttachmentPayload(id, "uploading") : id \in AttIds}
AvailablePayloads == {AttachmentPayload("a1", s) : s \in {"available", "uploaded"}}

NextDualWrite ==
    \/ \E c \in Convs : SetActiveConversation(c)
    \/ \E a \in UploadingPayloads : AttachmentUploading(a)
    \/ \E a \in AvailablePayloads : AttachmentAvailable(a)
    \/ StateSnapshot("c1", << Snapshot({"suggestedQuestions"}, <<>>, <<"q">>) >>)

SpecDualWrite == Init /\ [][NextDualWrite]_vars

\* the attachment a as it reads once stored: its metadata is {}
Stored(a) == [id |-> a.id, state |-> a.state, progress |-> NoProgress, error |-> <<>>]

\* what attachment.uploading / attachment.available with attachment a are
\* to leave
DualWritten(a) ==
    LET c == activeConversationId
    IN  /\ a.id \in DOMAIN GlobalNext
        /\ GlobalNext[a.id] = Stored(a)
        /\ IF c # NoConv
           THEN LET before == AgentStateOf(AgentNow, c)
                    after == AgentNext[c]
                IN  /\ DOMAIN AgentNext = (DOMAIN AgentNow) \cup {c}
                    /\ DOMAIN after.attachments = (DOMAIN before.attachments) \cup {a.id}
                    /\ after.attachments[a.id] = Stored(a)
                    /\ \A b \in (DOMAIN before.attachments) \ {a.id} :
                           after.attachments[b] = before.attachments[b]
                    /\ after.keys \ {"attachments"} = before.keys \ {"attachments"}
                    /\ after.suggestedQuestions = before.suggestedQuestions
           ELSE AgentNext = AgentNow

\* C25: after attachment.uploading or attachment.available with attachment
\* a, the global map reads a under a.id; with a conversation c active,
\* agentStateByConversation[c].attachments reads a under a.id too, its other
\* attachments and c's other keys as they were; with none active, what
\* agentStateByConversation holds is as it was.
C25_DualWrite ==
    /\ [][\A a \in UploadingPayloads : AttachmentUploading(a) => DualWritten(a)]_vars
    /\ [][\A a \in AvailablePayloads : AttachmentAvailable(a) => DualWritten(a)]_vars

\* a1 became available in c1, which held a2 and a question
C25_Witness ==
    /\ last = Ran("attachment.available", "a1", <<>>)
    /\ activeConversationId = "c1"
    /\ GlobalNow["a1"].state = "available"
    /\ AgentNow["c1"].keys = AgentKeys
    /\ AgentNow["c1"].suggestedQuestions = <<"q">>
    /\ DOMAIN AgentNow["c1"].attachments = AttIds
    /\ AgentNow["c1"].attachments["a1"].state = "available"
    /\ AgentNow["c1"].attachments["a2"].state = "uploading"

----------------------------------------------------------------------------
(* Further claims about useFileUpload. *)

ContentIds == {Content(f) : f \in Files}

\* C26: the attachment.uploading, attachment.progress and
\* attachment.available events of an uploadFile call carry the content id,
\* and so does an attachment.failed emitted once initiateUpload has
\* returned; an attachment.failed for a rejected initiateUpload carries the
\* temporary id.  The uploads map is keyed by temporary ids, and an entry
\* whose call is past initiateUpload records the content id.
C26_EventsCarryContentId ==
    /\ [](\A e \in emitted : e.kind # "attachment.failed" => e.id \in ContentIds)
    /\ [][last'.op = "uploadFile.failed" =>
            \E f \in FileOf(last'.id) :
                LET e == [kind |-> "attachment.failed",
                          id |-> IF last'.exp[1] = "initiate" THEN Temp(f) ELSE Content(f)]
                IN  e \in emitted' /\ emitted' \ emitted \subseteq {e}]_vars
    /\ [](DOMAIN uploads \subseteq TempIds)
    /\ [](\A f \in Files :
             (phase[f] \in {"transfer", "finalize", "completed"} /\ Temp(f) \in DOMAIN uploads)
                 => uploads[Temp(f)].contentId = Content(f))

----------------------------------------------------------------------------
(* Further claims about loadMessages. *)

\* the ids are in ascending order of the createdAt of the records msgs holds
Ascending(ids, msgs) ==
    \A i, j \in 1 .. Len(ids) : i < j => SortKey(msgs[ids[i]]) <= SortKey(msgs[ids[j]])

\* C27: right after a successful loadMessages(c), the ids of c's sequence are
\* in ascending order of their messages' createdAt, a message without
\* createdAt counting as time 0, also when local messages were retained.
C27_SequenceSortedByCreatedAt ==
    [][ResolvedStep =>
         Ascending(messagesByConversation'[last'.id], messages')]_vars


\* C28: once a loadMessages(c) has completed successfully, c stays marked
\* as loaded: every later loadMessages(c, false) issues no fetch and changes
\* nothing, and a loadMessages(c, true) with no load of c in flight issues a
\* new fetch, which reconciles again when it is answered; c is marked as
\* loaded only by the step that installs its sequence.
C28_LoadedOnceSkipsUnforced ==
    /\ [][loadedConversations \subseteq loadedConversations']_vars
    /\ [][loadedConversations' # loadedConversations =>
            /\ ResolvedStep
            /\ loadedConversations' = loadedConversations \cup {last'.id}]_vars
    /\ [][ResolvedStep =>
            /\ last'.id \in loadedConversations'
            /\ messagesByConversation'[last'.id] =
                  IdsOf(FinalMessages(last'.id, last'.exp[2]))]_vars
    /\ [][(last'.op = "loadMessages" /\ last'.id \in loadedConversations) =>
            IF last'.exp[2] = FALSE
            THEN /\ last'.exp[1] = "skipped"
                 /\ UNCHANGED <<storeVars, loadVars, attachVars>>
            ELSE last'.id \notin loadingConversations =>
                    /\ last'.exp[1] = "fetching"
                    /\ Len(fetching'[last'.id]) = Len(fetching[last'.id]) + 1]_vars

\* c1 was loaded with a two-message answer and then reloaded with force; the
\* unforced call that followed was skipped
C28_Witness ==
    /\ last = Ran("loadMessages", "c1", <<"skipped", FALSE>>)
    /\ "c1" \in loadedConversations /\ "c1" \notin loadingConversations
    /\ Len(SeqOf("c1")) = 2
    /\ "c2" \notin loadedConversations


\* C29: no handler runs between the post-fetch snapshot of loadMessages and
\* its write of the sequence, so the second reconciliation pass finds
\* nothing: carryOverIds is empty, and the installed sequence is the sorted
\* list of the retained local ids and the answer's ids, as the snapshot has
\* them.
C29_NothingIsCarriedOver ==
    [][ResolvedStep =>
         LET c == last'.id
             server == last'.exp[2]
             retained == SelectSeq(SeqOf(c),
                                   LAMBDA id : /\ id \in DOMAIN messages
                                               /\ StreamingOrOptimistic(id)
                                               /\ id \notin IdSet(server))
             sorted == SortByCreatedAt(
                           [i \in 1 .. Len(retained) |-> Entry(messages[retained[i]])]
                           \o [i \in 1 .. Len(server) |-> Entry(server[i])])
         IN  /\ CarryOverIds(SeqOf(c), messages', IdSet(sorted)) = <<>>
             /\ messagesByConversation'[c] = IdsOf(sorted)]_vars

\* m1 was streaming and msg_1 pending when the answer, which held neither,
\* came: both were retained by the first pass
C29_Witness ==
    /\ last.op = "loadMessages.resolved" /\ last.id = "c1"
    /\ last.exp[2] = <<>>
    /\ SeqOf("c1") = <<"msg_1", "m1">>
    /\ messages["m1"].status = "streaming"
    /\ messages["msg_1"].status = "pending"


\* C30: after loadMessages(c) completes successfully, c's sequence holds
\* exactly the answer's ids and the ids of c's sequence that were streaming
\* or had the msg_ prefix when the fetch completed; every other id the
\* sequence held is gone from it, and its record stays in the messages map
\* as it was.
C30_ReplaceWithPreservation ==
    [][ResolvedStep =>
         LET c == last'.id
             server == last'.exp[2]
             before == {SeqOf(c)[i] : i \in 1 .. Len(SeqOf(c))}
             local == {id \in before \cap DOMAIN messages : StreamingOrOptimistic(id)}
             after == {messagesByConversation'[c][i] :
                          i \in 1 .. Len(messagesByConversation'[c])}
         IN  /\ after = IdSet(server) \cup local
             /\ \A id \in (before \cap DOMAIN messages) \ (IdSet(server) \cup local) :
                   /\ id \notin after
                   /\ id \in DOMAIN messages'
                   /\ messages'[id] = messages[id]]_vars

\* m1 was streaming when the fetch began and completed before the empty
\* answer came: it is gone from the sequence, where msg_1 stays, and its
\* record is still in the map
C30_Witness ==
    /\ last.op = "loadMessages.resolved" /\ last.id = "c1"
    /\ Includes(last.exp[1], "m1")
    /\ last.exp[2] = <<>>
    /\ SeqOf("c1") = <<"msg_1">>
    /\ "m1" \in DOMAIN messages
    /\ messages["m1"].status = "completed"
    /\ messages["m1"].content = <<"a">>

----------------------------------------------------------------------------
(* Claims about the store as a whole. *)

\* C31: the parent message of every toolCallsInProgress entry is in the
\* messages map, so TOOL_CALL_END never drops an entry without appending its
\* tool call to a message.
C31_ParentAlwaysExists ==
    /\ \A tc \in DOMAIN toolCallsInProgress :
           toolCallsInProgress[tc].messageId \in DOMAIN messages
    /\ \A r \in reported : r.what # "Message not found for ID"

\* t1's parent m1 was made by TOOL_CALL_START; a load whose answer lacked m1
\* took it out of the sequence, and TOOL_CALL_END still found the message
C31_Witness ==
    /\ last.op = "TOOL_CALL_END" /\ last.id = "t1" /\ last.exp # <<>>
    /\ "c1" \in loadedConversations
    /\ ~ Includes(SeqOf("c1"), "m1")
    /\ "m1" \in DOMAIN messages
    /\ messages["m1"].toolCalls = << [id |-> "t1", name |-> "f", arguments |-> <<"a">>] >>
    /\ reported = {}


----------------------------------------------------------------------------
(* The four events that insert into a sequence, with payloads that name c1, *)
(* c2 or no conversation, while the active conversation switches.          *)

PayloadConvs == Convs \cup {NoConv}
ConvCreatedDocs ==
    {Doc("msg_1", "user", <<"u">>, c, "pending", MaxTime, NoTc) : c \in Convs}

NextConvs ==
    \/ \E c \in Convs : SetActiveConversation(c)
    \/ \E conv \in PayloadConvs : TextMessageStart("m1", "assistant", conv, MaxTime)
    \/ \E m \in ConvCreatedDocs : MessageCreated(m)
    \/ \E conv \in PayloadConvs : ToolCallStart("m1", "t1", "f", conv, MaxTime)
    \/ ToolCallEnd("t1")
    \/ ToolCallResult("msg_1", "t1", <<"r">>, "tool", MaxTime)

SpecConvs == Init /\ [][NextConvs]_vars

\* C32: each message id is in the sequence of at most one conversation, and
\* every id of messagesByConversation[c] has messages[id].conversationId = c.
C32_OneConversationPerMessage ==
    /\ \A id \in MsgIds : \A c, d \in Convs :
           (Includes(SeqOf(c), id) /\ Includes(SeqOf(d), id)) => c = d
    /\ \A c \in Convs : \A i \in 1 .. Len(SeqOf(c)) :
           /\ SeqOf(c)[i] \in DOMAIN messages
           /\ messages[SeqOf(c)[i]].conversationId = c


----------------------------------------------------------------------------
(* The upload of f1 while the active conversation changes, through         *)
(* setActiveConversation and through conversation.created.                 *)

ConversationDoc(id) == [id |-> id]

NextSwitch ==
    \/ SetActiveConversation("c1")
    \/ ConversationCreated(ConversationDoc("c2"))
    \/ UploadFiles({"f1"})
    \/ InitiateResolved("f1")
    \/ \E p \in Progresses : TransferProgress("f1", p)
    \/ TransferResolved("f1")
    \/ \E s \in FinalizeAnswers : FinalizeResolved("f1", s)
    \/ CleanUp("f1")
    \/ Rejected("f1", "rejected")
    \/ CancelUpload("temp-f1")

SpecSwitch == Init /\ [][NextSwitch]_vars

\* the states an attachment may end in once its upload stands at phase ph
FinalStates(ph) ==
    IF ph = "failed" THEN {"failed"} ELSE {"available", "uploaded"}

\* C33: once the upload of a file has finished, every conversation whose
\* attachments hold the file's attachment (attachment.uploading wrote it
\* into the conversation that was active then) reads it with the state the
\* upload ended in, whatever became the active conversation in between; no
\* conversation is left with it in state uploading.
C33_UploadEndsWhereItBegan ==
    \A f \in Files :
        phase[f] \in {"completed", "done", "failed"} =>
            \A c \in DOMAIN AgentNow :
                Content(f) \in DOMAIN AgentNow[c].attachments =>
                    AgentNow[c].attachments[Content(f)].state \in FinalStates(phase[f])

\* C34: after any step in which activeConversationId takes a new value, by
\* setActiveConversation or by conversation.created, the global attachments
\* map is empty.
C34_SwitchClearsGlobalView ==
    [][activeConversationId' # activeConversationId =>
          DOMAIN attachments' = {}]_vars

=============================================================================
